---------------------------- MODULE Spec2Model ----------------------------
(***************************************************************************)
(* Model of passport-magic-link (src/src/Strategy.ts, MemoryStorage.ts,    *)
(* collections/UsedTokens.ts, lookup.ts): the two-phase authentication     *)
(* state machine (requestToken / acceptToken), the used-token ledger and   *)
(* the token storage.  One authenticate() invocation is a process whose    *)
(* steps are the synchronous code between two awaits.                      *)
(***************************************************************************)
EXTENDS Integers, Sequences, FiniteSets, TLC

VARIABLES
  ledger,     \* a UsedTokens instance taken alone: its Map token -> ms
  calls,      \* the calls made on a UsedTokens or a MemoryStorage taken alone
  construction, \* the call of the constructor: its arguments and its outcome
  config,     \* the Strategy's configuration, fixed at construction
  now,        \* Date.now(), milliseconds
  tokens,     \* MemoryStorage.tokens : key -> record (token -> expiration ms)
  inv,        \* the authenticate() invocations in flight, one per process
  issued,     \* [user, token] pairs of the requestToken invocations that passed
  accepted,   \* [token, key] pairs accepted by acceptToken with the replay check
  pruned      \* tokens removed from a ledger by removeExpiredTokens

vars == <<ledger, calls, construction, config, now, tokens, inv, issued,
          accepted, pruned>>

---------------------------------------------------------------------------
(* Bounds of the model *)

NumProcs == 2
MaxSent == 2
MaxAccepted == 3
MaxClock == 1500
TickMs == 500
TtlMargin == 2

Procs == 1..NumProcs

---------------------------------------------------------------------------
(* Program constants *)

DEFAULT_TTL_SECONDS == 600
MIN_TTL_SECONDS == 1
MAX_TTL_SECONDS == 86400
MsPerSecond == 1000

Status401 == 401
Status400 == 400

---------------------------------------------------------------------------
(* JavaScript values *)

Undefined == "undefined"
Null == "null"
Nullish(v) == v = Undefined \/ v = Null
Falsy(v) == Nullish(v) \/ v = ""

\* a ?? b
Coalesce(a, b) == IF Nullish(a) THEN b ELSE a
\* a || b
OrElse(a, b) == IF Falsy(a) THEN b ELSE a

\* Token-valued request fields are records, so that a token and a plain
\* string can sit in the same field.
UndefTok == [t |-> "undefined"]
EmptyTok == [t |-> "string", s |-> ""]
GarbageTok == [t |-> "string", s |-> "not-a-jwt"]
NullishTok(v) == v.t = "undefined" \/ v.t = "null"
FalsyTok(v) == NullishTok(v) \/ v = EmptyTok
CoalesceTok(a, b) == IF NullishTok(a) THEN b ELSE a

NullUser == [null |-> TRUE]

Secret == "s"
OtherSecret == "not-s"

Emails == {"a@x", "b@x"}
Ids == {"1"}
Users == [email : Emails, id : Ids]

\* User = Record<string, unknown>: a user may hold values that are not JSON
\* values, such as a Date.
DateOf(ms) == [t |-> "Date", at |-> ms]
IsoStringOf(ms) == [t |-> "string", at |-> ms]
DatedUsers == { [email |-> "a@x", id |-> "1", since |-> DateOf(0)] }
Errors == {"db down", "smtp down"}


---------------------------------------------------------------------------
(* Configuration: MagicLinkStrategy.constructor *)

userFields == <<"email", "id">>
tokenField == "token"

\* passReqToCallbacks changes the arguments of the callbacks and nothing
\* else: it is varied under one ttl and one algorithm only.
Configs ==
  { c \in [ ttlSeconds           : {1, 2},
            algorithm            : {"HS256", "bogus"},
            allowPost            : BOOLEAN,
            passReqToCallbacks   : BOOLEAN,
            verifyUserAfterToken : BOOLEAN ] :
      c.passReqToCallbacks => c.ttlSeconds = 1 /\ c.algorithm = "HS256" }

---------------------------------------------------------------------------
(* Strategy.ts: construction *)

\* what a call does: it throws an error or returns a value
Threw(message) == [threw |-> TRUE, message |-> message]
Returned(value) == [threw |-> FALSE, value |-> value]

\* an optional number, an optional array
NoNumber == [t |-> "undefined"]
NumberOf(n) == [t |-> "number", n |-> n]
NoArray == [t |-> "undefined"]
ArrayOf(items) == [t |-> "array", items |-> items]

\* String.prototype.trim on the strings of the model
Blank == {"", " ", "  "}
Trim(s) ==
  CASE s \in Blank -> ""
    [] s = " s " -> "s"
    [] s = " email" -> "email"
    [] OTHER -> s

\* a validateTTL that refuses the two limits themselves
validateTTLExclusive(ttl) ==
  IF ttl <= MIN_TTL_SECONDS
    THEN Threw("TTL must be at least 1 second")
    ELSE IF ttl >= MAX_TTL_SECONDS
      THEN Threw("TTL cannot exceed 86400 seconds (24 hours)")
      ELSE Returned(ttl)

validateTTL(ttl) ==
  IF ttl < MIN_TTL_SECONDS
    THEN Threw("TTL must be at least 1 second")
    ELSE IF ttl > MAX_TTL_SECONDS
      THEN Threw("TTL cannot exceed 86400 seconds (24 hours)")
      ELSE Returned(ttl)

validateUserFields(fields) ==
  IF fields.t # "array" \/ Len(fields.items) = 0
    THEN Threw("User fields cannot be empty")
    ELSE IF \E k \in 1..Len(fields.items) :
              Falsy(fields.items[k]) \/ Trim(fields.items[k]) = ""
      THEN Threw("User fields cannot contain empty values")
      ELSE Returned(fields.items)

\* a validateSecret that does not trim
validateSecretUntrimmed(value) ==
  IF Falsy(value)
    THEN Threw("Secret cannot be empty")
    ELSE Returned(value)

validateSecret(value) ==
  IF Falsy(value) \/ Trim(value) = ""
    THEN Threw("Secret cannot be empty")
    ELSE Returned(value)

\* options.ttl ?? DEFAULT_TTL_SECONDS
ttlOrDefault(ttl) == IF ttl.t = "number" THEN ttl.n ELSE DEFAULT_TTL_SECONDS

\* the fields of the instance the constructor initialises
Instance(options) ==
  [ secret               |-> options.secret,
    userFields           |-> options.userFields.items,
    tokenField           |-> options.tokenField,
    ttlSeconds           |-> ttlOrDefault(options.ttl),
    algorithm            |-> Coalesce(options.algorithm, "HS256"),
    allowPost            |-> Coalesce(options.allowPost, "true") = "true",
    passReqToCallbacks   |-> Coalesce(options.passReqToCallbacks, "false")
                               = "true",
    verifyUserAfterToken |-> Coalesce(options.verifyUserAfterToken, "false")
                               = "true" ]

\* new MagicLinkStrategy(options, sendToken, verifyUser)
constructor(options, sendToken, verifyUser) ==
  IF Falsy(options.secret)
    THEN Threw("Magic Link authentication strategy requires an encryption secret")
  ELSE IF options.userFields.t # "array" \/ Len(options.userFields.items) = 0
    THEN Threw("Magic Link authentication strategy requires an array of mandatory user fields")
  ELSE IF Falsy(options.tokenField)
    THEN Threw("Magic Link authentication strategy requires a token field")
  ELSE IF Falsy(sendToken)
    THEN Threw("Magic Link authentication strategy requires a sendToken function")
  ELSE IF Falsy(verifyUser)
    THEN Threw("Magic Link authentication strategy requires a verifyUser function")
  ELSE IF validateSecret(options.secret).threw
    THEN validateSecret(options.secret)
  ELSE IF validateUserFields(options.userFields).threw
    THEN validateUserFields(options.userFields)
  ELSE IF validateTTL(ttlOrDefault(options.ttl)).threw
    THEN validateTTL(ttlOrDefault(options.ttl))
  ELSE Returned(Instance(options))

---------------------------------------------------------------------------
(* Requests and options *)

NoObject == [absent |-> TRUE]
Obj(e, d, t) == [email |-> e, id |-> d, token |-> t]
EmptyObj == Obj(Undefined, Undefined, UndefTok)
Req(b, q, p) == [body |-> b, query |-> q, params |-> p]

\* lookup(obj, field) for a one-segment path
lookup(obj, field) ==
  IF obj = NoObject
    THEN (IF field = tokenField THEN UndefTok ELSE Undefined)
    ELSE obj[field]

RequestTokenReqs ==
  { Req(Obj("a@x", "1", UndefTok), EmptyObj, EmptyObj),
    Req(EmptyObj, Obj("b@x", "1", UndefTok), EmptyObj),
    Req(Obj("a@x", Undefined, UndefTok), Obj(Undefined, "1", UndefTok), EmptyObj),
    Req(Obj("a@x", "1", UndefTok), Obj("b@x", "1", UndefTok), EmptyObj),
    Req(Obj(Undefined, "1", UndefTok), EmptyObj, EmptyObj),
    Req(Obj("a@x", Undefined, UndefTok), EmptyObj, EmptyObj),
    Req(NoObject, Obj("b@x", "1", UndefTok), EmptyObj),
    Req(Obj(Null, "1", UndefTok), Obj("b@x", Undefined, UndefTok), EmptyObj),
    Req(EmptyObj, EmptyObj, EmptyObj) }

TokObj(t) == Obj(Undefined, Undefined, t)

\* the places a request can carry token tk in
AcceptTokenReqs(tk) ==
  { Req(TokObj(tk), EmptyObj, EmptyObj),
    Req(EmptyObj, TokObj(tk), EmptyObj),
    Req(NoObject, EmptyObj, TokObj(tk)),
    Req(TokObj(tk), TokObj([t |-> "string", s |-> "not-a-jwt"]), EmptyObj),
    Req(TokObj([t |-> "string", s |-> ""]), TokObj(tk), EmptyObj) }

Opts(a, m, r, k, u) ==
  [action |-> a, authMessage |-> m, allowReuse |-> r, userPrimaryKey |-> k,
   tokenAlreadyUsedMessage |-> u]

NoOptions == Opts(Undefined, Undefined, Undefined, Undefined, Undefined)

\* allowReuse is a boolean or undefined; the strings "true" and "false"
\* stand for the booleans.
Truthy(v) == ~Falsy(v) /\ v # "false"

RequestOptions ==
  { Opts("requestToken", m, Undefined, Undefined, Undefined) :
      m \in {Undefined, "who are you"} }

AcceptOptions ==
  { Opts("acceptToken", Undefined, r, k, Undefined) :
      r \in {Undefined, "false", "true"}, k \in {Undefined, "id"} }
  \cup { NoOptions,
         Opts("acceptToken", "who are you", Undefined, "id", "seen before") }

OtherOptions ==
  { Opts("resetPassword", Undefined, Undefined, Undefined, Undefined) }

---------------------------------------------------------------------------
(* JSON web tokens: jwt.sign and jwt.verify *)

Jwt(user, iat, exp, key, alg) ==
  [t |-> "jwt", user |-> user, iat |-> iat, exp |-> exp, key |-> key,
   alg |-> alg]

SignableAlgorithms == {"HS256"}

\* Math.floor(Date.now() / 1000)
NowSeconds(ms) == ms \div MsPerSecond

\* jwt.sign throws for an algorithm it does not know
jwtSignThrows(cfg) == cfg.algorithm \notin SignableAlgorithms

\* JSON.parse(JSON.stringify(user)): a Date comes back as its ISO string
JsonRoundTrip(user) ==
  [f \in DOMAIN user |->
     IF f = "since" /\ user[f].t = "Date" THEN IsoStringOf(user[f].at)
     ELSE user[f]]

\* a jwt.sign whose tokens live one second longer than expiresIn
jwtSignOneSecondMore(user, iat, cfg) ==
  Jwt(JsonRoundTrip(user), iat, iat + cfg.ttlSeconds + 1, Secret,
      cfg.algorithm)

\* jwt.sign serialises the payload as JSON; a token is represented by the
\* payload jwt.verify parses out of it.
jwtSign(user, iat, cfg) ==
  Jwt(JsonRoundTrip(user), iat, iat + cfg.ttlSeconds, Secret, cfg.algorithm)

\* a jwt.verify that still takes a token at the second it expires
jwtVerifyThrowsLate(tk, ms, cfg) ==
  \/ tk.t # "jwt"
  \/ tk.key # Secret
  \/ tk.alg # cfg.algorithm
  \/ NowSeconds(ms) > tk.exp

\* jwt.verify throws for a string that is no token, a signature made with
\* another key or algorithm, and a token whose exp has been reached.
jwtVerifyThrows(tk, ms, cfg) ==
  \/ tk.t # "jwt"
  \/ tk.key # Secret
  \/ tk.alg # cfg.algorithm
  \/ NowSeconds(ms) >= tk.exp

\* Tokens that were not minted by the strategy
ForgedTokens ==
  { GarbageTok,
    Jwt([email |-> "a@x", id |-> "1"], 0, 1, OtherSecret, "HS256"),
    Jwt([email |-> "a@x", id |-> "1"], 0, 0 - 1, Secret, "HS256") }


---------------------------------------------------------------------------
(* collections/UsedTokens.ts: a ledger is a Map token -> milliseconds, a  *)
(* record is an object token -> milliseconds; one becomes the other        *)
(* through its [key, value] entries                                        *)

EmptyRecord == [tk \in {} |-> 0]

\* Object.entries(record) and the entries a Map iterates over
Entries(object) == { <<k, object[k]>> : k \in DOMAIN object }

\* new Map(entries) and Object.fromEntries(entries): each key of the entries
\* with the value of its entry
FromEntries(entries) ==
  [k \in { e[1] : e \in entries } |-> (CHOOSE e \in entries : e[1] = k)[2]]

\* new UsedTokens(record): new Map(Object.entries(record))
UsedTokensOf(record) == FromEntries(Entries(record))

hasBeenUsed(usedTokens, tk) == tk \in DOMAIN usedTokens

\* a markAsUsed that stores the expiration in seconds
markAsUsedInSeconds(usedTokens, tk, expirationSeconds) ==
  [x \in DOMAIN usedTokens \cup {tk} |->
     IF x = tk THEN expirationSeconds ELSE usedTokens[x]]

markAsUsed(usedTokens, tk, expirationSeconds) ==
  [x \in DOMAIN usedTokens \cup {tk} |->
     IF x = tk THEN expirationSeconds * MsPerSecond ELSE usedTokens[x]]

\* a pruning that keeps an entry at the instant it expires
expiredTokensStrictly(usedTokens, ms) ==
  { tk \in DOMAIN usedTokens : usedTokens[tk] < ms }

expiredTokens(usedTokens, ms) ==
  { tk \in DOMAIN usedTokens : usedTokens[tk] <= ms }

\* a pruning that deletes one expired entry per call
removeExpiredTokensOneByOne(usedTokens, ms) ==
  LET expired == expiredTokens(usedTokens, ms)
  IN IF expired = {}
       THEN usedTokens
       ELSE [tk \in DOMAIN usedTokens \ {CHOOSE x \in expired : TRUE} |->
               usedTokens[tk]]

removeExpiredTokens(usedTokens, ms) ==
  [tk \in DOMAIN usedTokens \ expiredTokens(usedTokens, ms) |-> usedTokens[tk]]

\* a toRecord that writes the expirations in seconds
toRecordInSeconds(usedTokens) ==
  FromEntries({ <<e[1], e[2] \div MsPerSecond>> : e \in Entries(usedTokens) })

\* Object.fromEntries(this.tokens)
toRecord(usedTokens) == FromEntries(Entries(usedTokens))

---------------------------------------------------------------------------
(* MemoryStorage.ts: a Map from user key to record *)

\* what get resolves to: the stored record, or undefined
Found(record) == [found |-> TRUE, record |-> record]
NoRecord == [found |-> FALSE, record |-> EmptyRecord]

storageGet(map, key) ==
  IF key \in DOMAIN map THEN Found(map[key]) ELSE NoRecord

storageSet(map, key, value) ==
  [k \in DOMAIN map \cup {key} |-> IF k = key THEN value ELSE map[k]]

\* a delete that empties the storage
storageDeleteAll(map, key) == [k \in {} |-> EmptyRecord]

storageDelete(map, key) == [k \in DOMAIN map \ {key} |-> map[k]]

\* what delete resolves to: Map.delete tells whether the key was there
storageDeleted(map, key) == key \in DOMAIN map

---------------------------------------------------------------------------
(* The outcomes an invocation signals to passport *)

Success(user) ==
  [kind |-> "success", user |-> user, message |-> "", status |-> 0]
Fail(challenge, status) ==
  [kind |-> "fail", user |-> NullUser, message |-> challenge,
   status |-> status]
Pass == [kind |-> "pass", user |-> NullUser, message |-> "", status |-> 0]
Error(message) ==
  [kind |-> "error", user |-> NullUser, message |-> message, status |-> 0]

Call(fn, args) == [fn |-> fn, settle |-> "call", args |-> args]

\* One authenticate() invocation.  pc is the await it is suspended at:
\*   idle, verifyUser, sendToken, checkReuse, storageGet, storageSet,
\*   done (the promise resolved), rejected (the promise rejected).
Idle ==
  [pc |-> "idle", req |-> Req(EmptyObj, EmptyObj, EmptyObj),
   opts |-> Opts(Undefined, Undefined, Undefined, Undefined, Undefined),
   user |-> NullUser, token |-> UndefTok, exp |-> 0, uid |-> Undefined,
   stored |-> NoRecord, signals |-> <<>>, trace |-> <<>>, logged |-> <<>>]

signal(r, outcome) ==
  [r EXCEPT !.signals = Append(@, outcome), !.pc = "done"]

\* the trace of an invocation: the calls it makes, in order, and how each
\* awaited call settles (fn.then with the value, fn.catch with the error)
called(r, fn, args) == [r EXCEPT !.trace = Append(@, Call(fn, args))]
settled(r, fn, how, value) ==
  [r EXCEPT !.trace = Append(@, [fn |-> fn, settle |-> how, value |-> value])]
NoValue == [void |-> TRUE]


logError(r, what, detail) ==
  [r EXCEPT !.logged = Append(@, <<what, detail>>)]

---------------------------------------------------------------------------
(* Strategy.ts: the request-token phase *)

\* an extractSingleField that looks in the body whatever allowPost says
extractSingleFieldFromBodyAlways(cfg, request, fieldName) ==
  Coalesce(lookup(request.body, fieldName), lookup(request.query, fieldName))

extractSingleField(cfg, request, fieldName) ==
  LET fromBody == IF cfg.allowPost THEN lookup(request.body, fieldName)
                  ELSE Undefined
      fromQuery == lookup(request.query, fieldName)
  IN Coalesce(fromBody, fromQuery)

NoFields == [null |-> TRUE]

FieldNames == { userFields[k] : k \in 1..Len(userFields) }

\* an extractUserFields that checks the first configured field only
extractUserFieldsFirstOnly(cfg, request) ==
  IF Nullish(extractSingleField(cfg, request, userFields[1]))
    THEN NoFields
    ELSE [f \in FieldNames |-> extractSingleField(cfg, request, f)]

extractUserFields(cfg, request) ==
  IF \E f \in FieldNames : Nullish(extractSingleField(cfg, request, f))
    THEN NoFields
    ELSE [f \in FieldNames |-> extractSingleField(cfg, request, f)]

\* callbacks that receive the request as their last argument
callbackArgsRequestLast(cfg, request, args) ==
  IF cfg.passReqToCallbacks THEN args \o <<request>> ELSE args

\* the arguments a callback receives
callbackArgs(cfg, request, args) ==
  IF cfg.passReqToCallbacks THEN <<request>> \o args ELSE args

\* a generateToken that signs the extracted fields, not the verified user
generateTokenOfFields(cfg, ms, r, user) ==
  LET r1 == called(r, "jwt.sign", <<r.user, NowSeconds(ms)>>)
  IN IF jwtSignThrows(cfg)
       THEN signal(logError(r1, "Token generation failed:", "sign"),
                   Error("Authentication failed"))
       ELSE LET tk == jwtSign(IF r.user = NullUser THEN user ELSE r.user,
                              NowSeconds(ms), cfg)
            IN [called(r1, "sendToken", callbackArgs(cfg, r.req, <<user, tk>>))
                  EXCEPT !.user = user, !.token = tk, !.exp = tk.exp,
                         !.pc = "sendToken"]

\* generateToken followed by the call of sendToken in deliverToken
generateToken(cfg, ms, r, user) ==
  LET r1 == called(r, "jwt.sign", <<user, NowSeconds(ms)>>)
  IN IF jwtSignThrows(cfg)
       THEN signal(logError(r1, "Token generation failed:", "sign"),
                   Error("Authentication failed"))
       ELSE LET tk == jwtSign(user, NowSeconds(ms), cfg)
            IN [called(r1, "sendToken", callbackArgs(cfg, r.req, <<user, tk>>))
                  EXCEPT !.user = user, !.token = tk, !.exp = tk.exp,
                         !.pc = "sendToken"]

verifyUserBeforeToken(cfg, ms, r, fields) ==
  IF cfg.verifyUserAfterToken
    THEN generateToken(cfg, ms, r, fields)
    ELSE [called(r, "verifyUser", callbackArgs(cfg, r.req, <<fields>>))
            EXCEPT !.user = fields, !.pc = "verifyUser"]

requestToken(cfg, ms, r) ==
  LET fields == extractUserFields(cfg, r.req)
  IN IF fields = NoFields
       THEN signal(r, Fail("Mandatory user fields missing", Status401))
       ELSE verifyUserBeforeToken(cfg, ms, r, fields)

---------------------------------------------------------------------------
(* Strategy.ts: the accept-token phase *)

extractToken(cfg, request) ==
  LET fromBody == IF cfg.allowPost THEN lookup(request.body, tokenField)
                  ELSE UndefTok
      fromQuery == lookup(request.query, tokenField)
      fromParams == lookup(request.params, tokenField)
  IN CoalesceTok(CoalesceTok(fromBody, fromQuery), fromParams)

\* a verifyUserAfterTokenVerification that never defers to verifyUser
verifyUserAfterTokenVerificationSkipped(cfg, r) ==
  [r EXCEPT !.pc = "checkReuse"]

verifyUserAfterTokenVerification(cfg, r) ==
  IF ~cfg.verifyUserAfterToken
    THEN [r EXCEPT !.pc = "checkReuse"]
    ELSE [called(r, "verifyUser", callbackArgs(cfg, r.req, <<r.user>>))
            EXCEPT !.pc = "verifyUser"]

verifyJwtToken(cfg, ms, r, tokenString) ==
  LET r1 == [called(r, "jwt.verify", <<tokenString, NowSeconds(ms)>>)
               EXCEPT !.token = tokenString]
  IN IF jwtVerifyThrows(tokenString, ms, cfg)
       THEN signal(logError(r1, "Token verification failed:", "verify"),
                   Fail("Invalid token", Status401))
       ELSE verifyUserAfterTokenVerification(cfg,
              [r1 EXCEPT !.user = tokenString.user, !.exp = tokenString.exp])

acceptToken(cfg, ms, r) ==
  LET tokenString == extractToken(cfg, r.req)
  IN IF FalsyTok(tokenString)
       THEN signal(r, Fail("Token missing", Status401))
       ELSE verifyJwtToken(cfg, ms, r, tokenString)

\* an authenticate whose default action is requestToken
authenticateDefaultingToRequest(cfg, ms, request, options) ==
  LET opts == [options EXCEPT !.action = Coalesce(@, "requestToken")]
      r == [Idle EXCEPT !.req = request, !.opts = opts]
  IN IF opts.action = "requestToken" THEN requestToken(cfg, ms, r)
     ELSE IF opts.action = "acceptToken" THEN acceptToken(cfg, ms, r)
     ELSE signal(r, Error("Unknown action"))

\* authenticate, up to its first await
authenticate(cfg, ms, request, options) ==
  LET opts == [options EXCEPT !.action = Coalesce(@, "acceptToken")]
      r == [Idle EXCEPT !.req = request, !.opts = opts]
  IN IF opts.action = "requestToken" THEN requestToken(cfg, ms, r)
     ELSE IF opts.action = "acceptToken" THEN acceptToken(cfg, ms, r)
     ELSE signal(r, Error("Unknown action"))


---------------------------------------------------------------------------
(* The state machine *)

\* the strategy has been constructed
Constructed == [pc |-> "constructed"]

Init ==
  /\ ledger = EmptyRecord
  /\ calls = <<>>
  /\ construction = Constructed
  /\ config \in Configs
  /\ now = 0
  /\ tokens = [k \in {} |-> EmptyRecord]
  /\ inv = [i \in Procs |-> Idle]
  /\ issued = {}
  /\ accepted = {}
  /\ pruned = {}

\* the tokens a client can present: those it was sent, and forged ones
Minted == { m.token : m \in issued }

Sent(r) == [user |-> r.user, token |-> r.token]

\* <<request, options>> pairs of the invocations the model starts
InBody(tk) == Req(TokObj(tk), EmptyObj, EmptyObj)

\* every request with the default options and the plainest request with
\* every option
RequestInputs ==
  { <<request, Opts("requestToken", Undefined, Undefined, Undefined,
                    Undefined)>> : request \in RequestTokenReqs }
  \cup { <<Req(Obj("a@x", "1", UndefTok), EmptyObj, EmptyObj), options>> :
           options \in RequestOptions }

AcceptInputsOf(tk) ==
  { <<request, NoOptions>> : request \in AcceptTokenReqs(tk) }
  \cup { <<InBody(tk), options>> : options \in AcceptOptions }

AcceptInputs ==
  UNION { AcceptInputsOf(tk) : tk \in Minted }
  \cup { <<InBody(tk), NoOptions>> : tk \in ForgedTokens }
  \cup { <<InBody(GarbageTok), options>> : options \in AcceptOptions }
  \cup { <<Req(EmptyObj, EmptyObj, EmptyObj), NoOptions>> }

OtherInputs ==
  { <<Req(EmptyObj, EmptyObj, EmptyObj), options>> : options \in OtherOptions }

\* the <<key, token>> pairs the storage holds
StoredPairs ==
  UNION { { <<k, tk>> : tk \in DOMAIN tokens[k] } : k \in DOMAIN tokens }

\* authenticate(req, options), up to the first await
Authenticate(i) ==
  /\ inv[i].pc = "idle"
  /\ \E input \in
          (IF Cardinality(issued) < MaxSent THEN RequestInputs ELSE {})
          \cup (IF /\ Cardinality(accepted) < MaxAccepted
                   /\ Cardinality(StoredPairs) < MaxAccepted
                  THEN AcceptInputs ELSE {})
          \cup OtherInputs :
       inv' = [inv EXCEPT
                 ![i] = authenticate(config, now, input[1], input[2])]
  /\ UNCHANGED <<ledger, calls, construction, config, now, tokens, issued, accepted, pruned>>

\* a verifyUserResolved that ignores options.authMessage
verifyUserResolvedDefaultMessage(cfg, ms, r, user) ==
  LET r1 == settled(r, "verifyUser", "then", user)
  IN IF user = NullUser
       THEN signal(r1, Fail("No user found", Status400))
       ELSE IF r.opts.action = "requestToken"
         THEN generateToken(cfg, ms, r1, user)
         ELSE [r1 EXCEPT !.user = user, !.pc = "checkReuse"]

\* verifyUser resolves: the rest of verifyUserBeforeToken or of
\* verifyUserAfterTokenVerification, up to the next await
verifyUserResolved(cfg, ms, r, user) ==
  LET r1 == settled(r, "verifyUser", "then", user)
  IN IF user = NullUser
       THEN signal(r1, Fail(OrElse(r.opts.authMessage, "No user found"),
                            Status400))
       ELSE IF r.opts.action = "requestToken"
         THEN generateToken(cfg, ms, r1, user)
         ELSE [r1 EXCEPT !.user = user, !.pc = "checkReuse"]

VerifyUserResolve(i) ==
  /\ inv[i].pc = "verifyUser"
  /\ \E user \in Users \cup DatedUsers \cup {NullUser} :
       inv' = [inv EXCEPT
                 ![i] = verifyUserResolved(config, now, inv[i], user)]
  /\ UNCHANGED <<ledger, calls, construction, config, now, tokens, issued, accepted, pruned>>

\* a rejection of verifyUser taken for a user that was not found
verifyUserRejectedAsNotFound(r, error) ==
  signal(logError(settled(r, "verifyUser", "catch", error),
                  "User verification failed:", error),
         Fail(OrElse(r.opts.authMessage, "No user found"), Status400))

verifyUserRejected(r, error) ==
  signal(logError(settled(r, "verifyUser", "catch", error),
                  "User verification failed:", error),
         Error("Authentication failed"))

VerifyUserReject(i) ==
  /\ inv[i].pc = "verifyUser"
  /\ \E error \in Errors :
       inv' = [inv EXCEPT ![i] = verifyUserRejected(inv[i], error)]
  /\ UNCHANGED <<ledger, calls, construction, config, now, tokens, issued, accepted, pruned>>

\* a delivery that ends in success with the user, not in pass
sendTokenResolvedAsSuccess(r) ==
  signal(settled(r, "sendToken", "then", NoValue), Success(r.user))

\* a delivery after which the token is looked up in the storage
sendTokenResolvedLookingUp(r) ==
  signal(called(settled(r, "sendToken", "then", NoValue),
                "storage.get", <<r.token>>),
         Pass)

\* sendToken resolves: deliverToken returns true and requestToken passes
sendTokenResolved(r) == signal(settled(r, "sendToken", "then", NoValue), Pass)

SendTokenResolve(i) ==
  /\ inv[i].pc = "sendToken"
  /\ inv' = [inv EXCEPT ![i] = sendTokenResolved(inv[i])]
  /\ issued' = issued \cup {Sent(inv[i])}
  /\ UNCHANGED <<ledger, calls, construction, config, now, tokens, accepted, pruned>>

\* a rejection of sendToken whose message is handed on
sendTokenRejectedLeaking(r, error) ==
  signal(logError(settled(r, "sendToken", "catch", error),
                  "Token delivery failed:", error),
         Error(error))

\* a rejection of sendToken after which requestToken goes on to pass
sendTokenRejectedThenPass(r, error) ==
  signal(signal(logError(settled(r, "sendToken", "catch", error),
                         "Token delivery failed:", error),
                Error("Authentication failed")),
         Pass)

sendTokenRejected(r, error) ==
  signal(logError(settled(r, "sendToken", "catch", error),
                  "Token delivery failed:", error),
         Error("Authentication failed"))

SendTokenReject(i) ==
  /\ inv[i].pc = "sendToken"
  /\ \E error \in Errors :
       inv' = [inv EXCEPT ![i] = sendTokenRejected(inv[i], error)]
  /\ UNCHANGED <<ledger, calls, construction, config, now, tokens, issued, accepted, pruned>>


\* a checkTokenReuse that does not look at allowReuse
checkTokenReuseAlways(map, r) ==
  LET primaryKey == OrElse(r.opts.userPrimaryKey, "email")
      userUID == r.user[primaryKey]
  IN [called(r, "storage.get", <<userUID>>)
        EXCEPT !.uid = userUID, !.stored = storageGet(map, userUID),
               !.pc = "storageGet"]

\* a checkTokenReuse that always keys the ledger by email
checkTokenReuseByEmail(map, r) ==
  IF Truthy(r.opts.allowReuse)
    THEN signal(r, Success(r.user))
    ELSE LET userUID == r.user["email"]
         IN [called(r, "storage.get", <<userUID>>)
               EXCEPT !.uid = userUID, !.stored = storageGet(map, userUID),
                      !.pc = "storageGet"]

\* checkTokenReuse up to the call of storage.get; MemoryStorage.get reads
\* the map when it is called
checkTokenReuse(map, r) ==
  IF Truthy(r.opts.allowReuse)
    THEN signal(r, Success(r.user))
    ELSE LET primaryKey == OrElse(r.opts.userPrimaryKey, "email")
             userUID == r.user[primaryKey]
         IN [called(r, "storage.get", <<userUID>>)
               EXCEPT !.uid = userUID, !.stored = storageGet(map, userUID),
                      !.pc = "storageGet"]

CheckTokenReuse(i) ==
  /\ inv[i].pc = "checkReuse"
  /\ inv' = [inv EXCEPT ![i] = checkTokenReuse(tokens, inv[i])]
  /\ accepted' = accepted
  /\ UNCHANGED <<ledger, calls, construction, config, now, tokens, issued, pruned>>

\* (await this.storage.get(userUID)) || {}
storedRecord(r) == IF r.stored.found THEN r.stored.record ELSE EmptyRecord

\* a record for storage.set that holds the presented token only
updatedRecordOfTokenOnly(ms, r) ==
  toRecord(markAsUsed(UsedTokensOf(EmptyRecord), r.token, r.exp))

\* the record checkTokenReuse hands to storage.set
updatedRecord(ms, r) ==
  toRecord(markAsUsed(removeExpiredTokens(UsedTokensOf(storedRecord(r)), ms),
                      r.token, r.exp))

tokenWasUsed(r) == hasBeenUsed(UsedTokensOf(storedRecord(r)), r.token)

\* a replay check that refuses a used token with status 401
storageGetResolvedUnauthorized(ms, r) ==
  LET r1 == settled(r, "storage.get", "then", r.stored)
  IN IF tokenWasUsed(r)
       THEN signal(r1, Fail(OrElse(r.opts.tokenAlreadyUsedMessage,
                                   "Token was already used"), Status401))
       ELSE [called(r1, "storage.set", <<r.uid, updatedRecord(ms, r)>>)
               EXCEPT !.pc = "storageSet"]

\* a replay check that calls storage.set and does not await it
storageGetResolvedNotAwaitingSet(ms, r) ==
  LET r1 == settled(r, "storage.get", "then", r.stored)
  IN IF tokenWasUsed(r)
       THEN signal(r1, Fail(OrElse(r.opts.tokenAlreadyUsedMessage,
                                   "Token was already used"), Status400))
       ELSE signal(called(r1, "storage.set", <<r.uid, updatedRecord(ms, r)>>),
                   Success(r.user))

\* storage.get resolves: the rest of checkTokenReuse up to the call of
\* storage.set; MemoryStorage.set writes the map when it is called
storageGetResolved(ms, r) ==
  LET r1 == settled(r, "storage.get", "then", r.stored)
  IN IF tokenWasUsed(r)
       THEN signal(r1, Fail(OrElse(r.opts.tokenAlreadyUsedMessage,
                                   "Token was already used"), Status400))
       ELSE [called(r1, "storage.set", <<r.uid, updatedRecord(ms, r)>>)
               EXCEPT !.pc = "storageSet"]

\* a replay check that decides and writes on the ledger as it is when
\* storage.get resolves, not as it was when storage.get was called
StorageGetResolveOnCurrentLedger(i) ==
  /\ inv[i].pc = "storageGet"
  /\ LET fresh == [inv[i] EXCEPT !.stored = storageGet(tokens, inv[i].uid)]
         r2 == [storageGetResolved(now, fresh) EXCEPT !.stored = inv[i].stored]
     IN /\ inv' = [inv EXCEPT ![i] = r2]
        /\ IF r2.pc = "storageSet"
             THEN /\ tokens' = storageSet(tokens, inv[i].uid,
                                          updatedRecord(now, fresh))
                  /\ pruned' = pruned \cup
                       expiredTokens(UsedTokensOf(storedRecord(fresh)), now)
             ELSE UNCHANGED <<tokens, pruned>>
  /\ UNCHANGED <<ledger, calls, construction, config, now, issued, accepted>>

\* a replay check that prunes and stores the ledger before it refuses a
\* used token
StorageGetResolvePruningFirst(i) ==
  /\ inv[i].pc = "storageGet"
  /\ LET r2 == storageGetResolved(now, inv[i])
         read == UsedTokensOf(storedRecord(inv[i]))
     IN /\ inv' = [inv EXCEPT ![i] = r2]
        /\ tokens' = storageSet(tokens, inv[i].uid,
                                IF r2.pc = "storageSet"
                                  THEN updatedRecord(now, inv[i])
                                  ELSE toRecord(removeExpiredTokens(read, now)))
        /\ pruned' = pruned \cup expiredTokens(read, now)
  /\ UNCHANGED <<ledger, calls, construction, config, now, issued, accepted>>

StorageGetResolve(i) ==
  /\ inv[i].pc = "storageGet"
  /\ LET r2 == storageGetResolved(now, inv[i])
     IN /\ inv' = [inv EXCEPT ![i] = r2]
        /\ IF r2.pc = "storageSet"
             THEN /\ tokens' = storageSet(tokens, inv[i].uid,
                                          updatedRecord(now, inv[i]))
                  /\ pruned' = pruned \cup
                       expiredTokens(UsedTokensOf(storedRecord(inv[i])), now)
             ELSE UNCHANGED <<tokens, pruned>>
  /\ UNCHANGED <<ledger, calls, construction, config, now, issued, accepted>>

\* storage.set resolves: checkTokenReuse returns true, acceptToken succeeds
storageSetResolved(r) ==
  signal(settled(r, "storage.set", "then", NoValue), Success(r.user))

StorageSetResolve(i) ==
  /\ inv[i].pc = "storageSet"
  /\ inv' = [inv EXCEPT ![i] = storageSetResolved(inv[i])]
  /\ accepted' = accepted \cup {[token |-> inv[i].token, key |-> inv[i].uid]}
  /\ UNCHANGED <<ledger, calls, construction, config, now, tokens, issued, pruned>>

\* A storage other than MemoryStorage may reject get or set: the await in
\* checkTokenReuse throws, nothing catches it, and the promise returned by
\* authenticate rejects.
storageRejected(r, fn, error) ==
  [settled(r, fn, "catch", error) EXCEPT !.pc = "rejected"]

StorageGetReject(i) ==
  /\ inv[i].pc = "storageGet"
  /\ \E error \in Errors :
       inv' = [inv EXCEPT
                 ![i] = storageRejected(inv[i], "storage.get", error)]
  /\ UNCHANGED <<ledger, calls, construction, config, now, tokens, issued, accepted, pruned>>

StorageSetReject(i) ==
  /\ inv[i].pc = "storageSet"
  /\ \E error \in Errors :
       inv' = [inv EXCEPT
                 ![i] = storageRejected(inv[i], "storage.set", error)]
  /\ UNCHANGED <<ledger, calls, construction, config, now, tokens, issued, accepted, pruned>>

\* the invocation is over and the process may serve another request
Return(i) ==
  /\ inv[i].pc \in {"done", "rejected"}
  /\ inv' = [inv EXCEPT ![i] = Idle]
  /\ UNCHANGED <<ledger, calls, construction, config, now, tokens, issued, accepted, pruned>>

\* time passes
Tick ==
  /\ now + TickMs <= MaxClock
  /\ now' = now + TickMs
  /\ UNCHANGED <<ledger, calls, construction, config, tokens, inv, issued, accepted, pruned>>

Step(i) ==
  \/ Authenticate(i)
  \/ VerifyUserResolve(i)
  \/ VerifyUserReject(i)
  \/ SendTokenResolve(i)
  \/ SendTokenReject(i)
  \/ CheckTokenReuse(i)
  \/ StorageGetResolve(i)
  \/ StorageSetResolve(i)
  \/ Return(i)

\* one request at a time, MemoryStorage
Next == Tick \/ Step(1)
Spec == Init /\ [][Next]_vars

\* One request at a time with a token lifetime of two seconds, on a clock
\* that runs until a token has expired while a later one is still valid
MaxLateClock == 2000

InitLate ==
  /\ Init
  /\ config.ttlSeconds = 2 /\ config.algorithm = "HS256"
  /\ config.allowPost /\ ~config.passReqToCallbacks

TickLate ==
  /\ now + TickMs <= MaxLateClock
  /\ now' = now + TickMs
  /\ UNCHANGED <<ledger, calls, construction, config, tokens, inv, issued,
                 accepted, pruned>>

NextLate == TickLate \/ Step(1)
SpecLate == InitLate /\ [][NextLate]_vars

\* one request at a time, a storage that may fail
NextFault == Tick \/ Step(1) \/ StorageGetReject(1) \/ StorageSetReject(1)
SpecFault == Init /\ [][NextFault]_vars


---------------------------------------------------------------------------
(* Several requests in flight: the invocations interleave at their awaits *)

\* one configuration per verification order
InitConcurrent ==
  /\ Init
  /\ config.ttlSeconds = 1 /\ config.algorithm = "HS256"
  /\ config.allowPost /\ ~config.passReqToCallbacks

\* tokens are requested until MaxSent have been sent; the tokens sent are
\* presented in the body with the default options
ConcurrentInputs ==
  (IF Cardinality(issued) < MaxSent
     THEN { <<Req(Obj("a@x", "1", UndefTok), EmptyObj, EmptyObj),
              Opts("requestToken", Undefined, Undefined, Undefined,
                   Undefined)>> }
     ELSE {})
  \cup (IF Cardinality(accepted) < MaxAccepted
          THEN { <<InBody(tk), NoOptions>> : tk \in Minted }
          ELSE {})

AuthenticateConcurrently(i) ==
  /\ inv[i].pc = "idle"
  /\ \E input \in ConcurrentInputs :
       inv' = [inv EXCEPT
                 ![i] = authenticate(config, now, input[1], input[2])]
  /\ UNCHANGED <<ledger, calls, construction, config, now, tokens, issued, accepted, pruned>>

StepConcurrent(i) ==
  \/ AuthenticateConcurrently(i)
  \/ VerifyUserResolve(i)
  \/ VerifyUserReject(i)
  \/ SendTokenResolve(i)
  \/ SendTokenReject(i)
  \/ CheckTokenReuse(i)
  \/ StorageGetResolve(i)
  \/ StorageSetResolve(i)
  \/ Return(i)

NextConcurrent == \E i \in Procs : StepConcurrent(i)
SpecConcurrent == InitConcurrent /\ [][NextConcurrent]_vars

\* several requests in flight while time passes
NextConcurrentClock == Tick \/ NextConcurrent
SpecConcurrentClock == InitConcurrent /\ [][NextConcurrentClock]_vars

---------------------------------------------------------------------------
(* Every await settles: the callback or the storage operation an           *)
(* invocation is suspended at resolves or rejects in the end, and the code *)
(* that follows an await that needs no one else runs                       *)

Settles(i) ==
  /\ WF_vars(VerifyUserResolve(i) \/ VerifyUserReject(i))
  /\ WF_vars(SendTokenResolve(i) \/ SendTokenReject(i))
  /\ WF_vars(CheckTokenReuse(i))
  /\ WF_vars(StorageGetResolve(i) \/ StorageGetReject(i))
  /\ WF_vars(StorageSetResolve(i) \/ StorageSetReject(i))

\* several requests in flight, a storage that may fail
NextSettling ==
  \E i \in Procs :
    StepConcurrent(i) \/ StorageGetReject(i) \/ StorageSetReject(i)

SpecSettling ==
  InitConcurrent /\ [][NextSettling]_vars /\ \A i \in Procs : Settles(i)

---------------------------------------------------------------------------
(* Construction: new MagicLinkStrategy(options, sendToken, verifyUser) *)

\* no strategy exists
NoStrategy == [none |-> TRUE]
NoOutcome == [none |-> TRUE]

\* ttl values around the two limits, the default and no ttl at all
TtlValues ==
  {NoNumber} \cup
  { NumberOf(n) :
      n \in (MIN_TTL_SECONDS - TtlMargin .. MIN_TTL_SECONDS + TtlMargin)
           \cup (MAX_TTL_SECONDS - TtlMargin .. MAX_TTL_SECONDS + TtlMargin)
           \cup {DEFAULT_TTL_SECONDS} }

SecretValues == {Undefined, "", "  ", "s", " s "}
UserFieldsValues ==
  { NoArray, ArrayOf(<<>>), ArrayOf(<<"email", "id">>), ArrayOf(<<"email">>),
    ArrayOf(<<"email", "">>), ArrayOf(<<" ", "id">>),
    ArrayOf(<<" email", "id">>) }
TokenFieldValues == {Undefined, "", "token"}
CallbackValues == {Undefined, "function"}

\* the optional settings: all absent, or all given
Settings ==
  { [algorithm |-> Undefined, allowPost |-> Undefined,
     passReqToCallbacks |-> Undefined, verifyUserAfterToken |-> Undefined],
    [algorithm |-> "HS512", allowPost |-> "false",
     passReqToCallbacks |-> "true", verifyUserAfterToken |-> "true"] }

Options(secret, fields, field, ttl, settings) ==
  [ secret |-> secret, userFields |-> fields, tokenField |-> field,
    ttl |-> ttl, algorithm |-> settings.algorithm,
    allowPost |-> settings.allowPost,
    passReqToCallbacks |-> settings.passReqToCallbacks,
    verifyUserAfterToken |-> settings.verifyUserAfterToken ]

ConstructorArguments ==
  { [pc |-> "new", options |-> Options(secret, fields, field, ttl, settings),
     sendToken |-> send, verifyUser |-> verify, outcome |-> NoOutcome] :
      secret \in SecretValues, fields \in UserFieldsValues,
      field \in TokenFieldValues, ttl \in TtlValues, settings \in Settings,
      send \in CallbackValues, verify \in CallbackValues }

InitConstruct ==
  /\ ledger = EmptyRecord
  /\ calls = <<>>
  /\ construction \in ConstructorArguments
  /\ config = NoStrategy
  /\ now = 0
  /\ tokens = [k \in {} |-> EmptyRecord]
  /\ inv = [i \in Procs |-> Idle]
  /\ issued = {}
  /\ accepted = {}
  /\ pruned = {}

\* the constructor runs: it throws, or there is a strategy
Construct ==
  /\ construction.pc = "new"
  /\ LET outcome == constructor(construction.options, construction.sendToken,
                                construction.verifyUser)
     IN /\ construction' = [construction EXCEPT !.pc = "done",
                                                !.outcome = outcome]
        /\ config' = IF outcome.threw THEN config ELSE outcome.value
  /\ UNCHANGED <<ledger, calls, now, tokens, inv, issued, accepted, pruned>>

NextConstruct == Construct
SpecConstruct == InitConstruct /\ [][NextConstruct]_vars

---------------------------------------------------------------------------
(* A UsedTokens instance taken alone: its methods in any order, at any     *)
(* instant, on ledgers that hold entries expiring around that instant      *)

MaxCalls == 3
MaxSeconds == 1

LedgerTokens == {"token1", "token2"}
ExpirationSeconds == 0..MaxSeconds

\* the records a ledger is loaded from: any of the tokens, each expiring at
\* the given instant or one millisecond later
GivenRecords(ms) ==
  UNION { [held -> {ms, ms + 1}] : held \in SUBSET LedgerTokens }

\* the record the last call returned, if it was toRecord
LastRecord ==
  IF calls # <<>> /\ calls[Len(calls)].fn = "toRecord"
    THEN {calls[Len(calls)].record}
    ELSE {}

\* new UsedTokens(): the record defaults to {}
InitUsedTokens ==
  /\ ledger = UsedTokensOf(EmptyRecord)
  /\ calls = <<>>
  /\ construction = Constructed
  /\ config = NoStrategy
  /\ now = 0
  /\ tokens = [k \in {} |-> EmptyRecord]
  /\ inv = [i \in Procs |-> Idle]
  /\ issued = {}
  /\ accepted = {}
  /\ pruned = {}

\* new UsedTokens(record), of a given record or of the one toRecord returned
NewUsedTokens ==
  /\ Len(calls) < MaxCalls
  /\ \E record \in GivenRecords(now) \cup LastRecord :
       LET after == UsedTokensOf(record)
       IN /\ ledger' = after
          /\ calls' = Append(calls, [fn |-> "constructor", record |-> record,
                                     before |-> ledger, after |-> after,
                                     at |-> now])
  /\ UNCHANGED <<construction, config, now, tokens, inv, issued, accepted,
                 pruned>>

HasBeenUsed ==
  /\ Len(calls) < MaxCalls
  /\ \E tk \in LedgerTokens :
       calls' = Append(calls, [fn |-> "hasBeenUsed", token |-> tk,
                               returned |-> hasBeenUsed(ledger, tk),
                               before |-> ledger, after |-> ledger,
                               at |-> now])
  /\ UNCHANGED <<ledger, construction, config, now, tokens, inv, issued,
                 accepted, pruned>>

MarkAsUsed ==
  /\ Len(calls) < MaxCalls
  /\ \E tk \in LedgerTokens, expirationSeconds \in ExpirationSeconds :
       LET after == markAsUsed(ledger, tk, expirationSeconds)
       IN /\ ledger' = after
          /\ calls' = Append(calls, [fn |-> "markAsUsed", token |-> tk,
                                     expirationSeconds |-> expirationSeconds,
                                     before |-> ledger, after |-> after,
                                     at |-> now])
  /\ UNCHANGED <<construction, config, now, tokens, inv, issued, accepted,
                 pruned>>

RemoveExpiredTokens ==
  /\ Len(calls) < MaxCalls
  /\ LET after == removeExpiredTokens(ledger, now)
     IN /\ ledger' = after
        /\ calls' = Append(calls, [fn |-> "removeExpiredTokens",
                                   before |-> ledger, after |-> after,
                                   at |-> now])
  /\ UNCHANGED <<construction, config, now, tokens, inv, issued, accepted,
                 pruned>>

ToRecord ==
  /\ Len(calls) < MaxCalls
  /\ calls' = Append(calls, [fn |-> "toRecord", record |-> toRecord(ledger),
                             before |-> ledger, after |-> ledger,
                             at |-> now])
  /\ UNCHANGED <<ledger, construction, config, now, tokens, inv, issued,
                 accepted, pruned>>

NextUsedTokens ==
  \/ Tick
  \/ NewUsedTokens
  \/ HasBeenUsed
  \/ MarkAsUsed
  \/ RemoveExpiredTokens
  \/ ToRecord

SpecUsedTokens == InitUsedTokens /\ [][NextUsedTokens]_vars

---------------------------------------------------------------------------
(* A MemoryStorage taken alone: set, get and delete in any order *)

StorageKeys == {"a@x", "b@x"}

\* the records stored: one per token, holding that token
StorageValues ==
  { toRecord(markAsUsed(UsedTokensOf(EmptyRecord), tk, MaxSeconds)) :
      tk \in LedgerTokens }

\* new MemoryStorage(): an empty Map
InitMemoryStorage ==
  /\ ledger = EmptyRecord
  /\ calls = <<>>
  /\ construction = Constructed
  /\ config = NoStrategy
  /\ now = 0
  /\ tokens = [k \in {} |-> EmptyRecord]
  /\ inv = [i \in Procs |-> Idle]
  /\ issued = {}
  /\ accepted = {}
  /\ pruned = {}

MemoryStorageSet ==
  /\ Len(calls) < MaxCalls
  /\ \E key \in StorageKeys, value \in StorageValues :
       /\ tokens' = storageSet(tokens, key, value)
       /\ calls' = Append(calls, [fn |-> "set", key |-> key,
                                  value |-> value])
  /\ UNCHANGED <<ledger, construction, config, now, inv, issued, accepted,
                 pruned>>

MemoryStorageGet ==
  /\ Len(calls) < MaxCalls
  /\ \E key \in StorageKeys :
       calls' = Append(calls, [fn |-> "get", key |-> key,
                               resolved |-> storageGet(tokens, key)])
  /\ UNCHANGED <<ledger, construction, config, now, tokens, inv, issued,
                 accepted, pruned>>

MemoryStorageDelete ==
  /\ Len(calls) < MaxCalls
  /\ \E key \in StorageKeys :
       /\ tokens' = storageDelete(tokens, key)
       /\ calls' = Append(calls, [fn |-> "delete", key |-> key,
                                  existed |-> storageDeleted(tokens, key)])
  /\ UNCHANGED <<ledger, construction, config, now, inv, issued, accepted,
                 pruned>>

NextMemoryStorage ==
  \/ MemoryStorageSet
  \/ MemoryStorageGet
  \/ MemoryStorageDelete

SpecMemoryStorage == InitMemoryStorage /\ [][NextMemoryStorage]_vars

---------------------------------------------------------------------------
(* Vocabulary of the properties *)

Did(r, fn, how) ==
  \E k \in 1..Len(r.trace) : r.trace[k].fn = fn /\ r.trace[k].settle = how
CallsOf(r, fn) ==
  { k \in 1..Len(r.trace) : r.trace[k].fn = fn /\ r.trace[k].settle = "call" }

IsRequestToken(r) == r.pc # "idle" /\ r.opts.action = "requestToken"
IsAcceptToken(r) == r.pc # "idle" /\ r.opts.action = "acceptToken"
Over(r) == r.pc = "done"

\* the token passes signature and expiry verification at second ts
Verifies(tk, ts) ==
  /\ tk.t = "jwt"
  /\ tk.key = Secret
  /\ tk.alg = config.algorithm
  /\ ts < tk.exp

\* the invocation presented a token, and the second it was verified at
Presented(r) == IsAcceptToken(r) /\ Did(r, "jwt.verify", "call")
VerifiedAt(r) ==
  LET k == CHOOSE k \in 1..Len(r.trace) :
             r.trace[k].fn = "jwt.verify" /\ r.trace[k].settle = "call"
  IN r.trace[k].args[2]

\* verifyUser resolved to u
Resolved(r, u) ==
  \E k \in 1..Len(r.trace) :
    /\ r.trace[k].fn = "verifyUser" /\ r.trace[k].settle = "then"
    /\ r.trace[k].value = u

ReplayChecked(r) == ~(r.opts.allowReuse = "true")
PrimaryKeyOf(r) ==
  IF r.opts.userPrimaryKey = Undefined THEN "email" ELSE r.opts.userPrimaryKey
AlreadyUsedFail(r) ==
  Fail(IF r.opts.tokenAlreadyUsedMessage = Undefined
         THEN "Token was already used" ELSE r.opts.tokenAlreadyUsedMessage,
       400)

\* the invocation is at the replay check for a token already accepted for
\* the user key it resolves to
Replaying(r, acc) ==
  /\ IsAcceptToken(r)
  /\ r.pc \in {"checkReuse", "storageGet"}
  /\ ReplayChecked(r)
  /\ [token |-> r.token, key |-> r.user[PrimaryKeyOf(r)]] \in acc

\* C1: once acceptToken has succeeded for token T and user key U with the
\* replay check on, every later acceptToken of T that resolves to U with the
\* replay check on goes from the replay check to fail with "Token was
\* already used" (or the supplied tokenAlreadyUsedMessage), never to
\* success, and leaves the storage as it is.
C1_ReplayRejected ==
  [][ \A i \in Procs :
        (Replaying(inv[i], accepted) /\ inv'[i] # inv[i]) =>
          /\ tokens' = tokens
          /\ \/ inv'[i].pc = "storageGet" /\ Replaying(inv'[i], accepted')
             \/ /\ inv'[i].pc = "done"
                /\ inv'[i].signals = <<AlreadyUsedFail(inv[i])>> ]_vars

C1_Witness ==
  \E i \in Procs :
    /\ Over(inv[i]) /\ IsAcceptToken(inv[i]) /\ ReplayChecked(inv[i])
    /\ [token |-> inv[i].token, key |-> inv[i].uid] \in accepted
    /\ inv[i].signals = <<Fail("Token was already used", 400)>>


NoStorageUse(r) ==
  ~Did(r, "storage.get", "call") /\ ~Did(r, "storage.set", "call")

\* C2, as stated: with allowReuse true, acceptToken of a token that passes
\* verification succeeds with the user in the token.
C2_ReuseSucceedsWithTokenUser ==
  \A i \in Procs :
    ( /\ Over(inv[i]) /\ Presented(inv[i])
      /\ inv[i].opts.allowReuse = "true"
      /\ Verifies(inv[i].token, VerifiedAt(inv[i])) )
    => inv[i].signals = <<Success(inv[i].token.user)>>

\* C2, amended: with allowReuse true, acceptToken of a token that passes
\* verification never consults the storage and succeeds whatever the ledger
\* holds: with the user in the token when verifyUserAfterToken is false, and
\* with the user verifyUser resolves to when it is true.
C2_ReuseSucceedsWithSubject ==
  \A i \in Procs :
    ( /\ Over(inv[i]) /\ Presented(inv[i])
      /\ inv[i].opts.allowReuse = "true"
      /\ Verifies(inv[i].token, VerifiedAt(inv[i])) )
    => /\ NoStorageUse(inv[i])
       /\ ~config.verifyUserAfterToken =>
            inv[i].signals = <<Success(inv[i].token.user)>>
       /\ \A u \in Users \cup DatedUsers :
            ( config.verifyUserAfterToken
              /\ Resolved(inv[i], u) )
            => inv[i].signals = <<Success(u)>>

\* the token was accepted before, is still in the ledger of its user, and
\* is accepted again
C2_Witness ==
  \E i \in Procs :
    /\ Over(inv[i]) /\ Presented(inv[i])
    /\ inv[i].opts.allowReuse = "true"
    /\ inv[i].signals = <<Success(inv[i].user)>>
    /\ inv[i].user.email \in DOMAIN tokens
    /\ inv[i].token \in DOMAIN tokens[inv[i].user.email]

\* C3: an acceptToken whose token fails signature or expiry verification
\* ends at once in fail "Invalid token" (401) without calling verifyUser or
\* the storage, and acceptToken signals success only for a token that
\* passed verification.
C3_InvalidTokenFails ==
  \A i \in Procs :
    /\ ( Presented(inv[i])
         /\ ~Verifies(inv[i].token, VerifiedAt(inv[i])) )
       => /\ Over(inv[i])
          /\ inv[i].signals = <<Fail("Invalid token", 401)>>
          /\ ~Did(inv[i], "verifyUser", "call")
          /\ NoStorageUse(inv[i])
    /\ ( IsAcceptToken(inv[i])
         /\ \E k \in 1..Len(inv[i].signals) :
              inv[i].signals[k].kind = "success" )
       => /\ Presented(inv[i])
          /\ Verifies(inv[i].token, VerifiedAt(inv[i]))

\* a token the strategy minted is presented after it has expired
C3_Witness ==
  \E i \in Procs :
    /\ Over(inv[i]) /\ Presented(inv[i])
    /\ inv[i].token \in Minted
    /\ VerifiedAt(inv[i]) >= inv[i].token.exp
    /\ inv[i].signals = <<Fail("Invalid token", 401)>>

\* the ledger under key k
LedgerOf(k) == IF k \in DOMAIN tokens THEN DOMAIN tokens[k] ELSE {}

\* With one request at a time the ledgers hold exactly the accepted tokens
\* that have not been pruned, a pruned token has expired, and a token held
\* but not yet recorded as accepted belongs to the acceptance under way.
LedgerIsHistory ==
  /\ \A a \in accepted :
       a.token \in LedgerOf(a.key) \/ now >= a.token.exp * 1000
  /\ \A k \in DOMAIN tokens : \A tk \in DOMAIN tokens[k] :
       \/ [token |-> tk, key |-> k] \in accepted
       \/ \E i \in Procs : /\ inv[i].pc \in {"storageSet", "rejected"}
                           /\ inv[i].token = tk /\ inv[i].uid = k

\* the acceptance under way is the round trip of a minted token: replay
\* check on, verifyUserAfterToken false, presented before it expires
RoundTrip(r) ==
  /\ Over(r) /\ Presented(r)
  /\ ~config.verifyUserAfterToken
  /\ ReplayChecked(r)
  /\ r.token \in Minted
  /\ Verifies(r.token, VerifiedAt(r))

FirstAcceptance(r) == r.token \notin DOMAIN r.stored.record

\* C4, as stated: the first acceptance of a minted token succeeds with the
\* same user that was handed to sendToken when it was minted.
C4_RoundTripSameUser ==
  \A i \in Procs :
    (RoundTrip(inv[i]) /\ FirstAcceptance(inv[i]))
    => \A m \in issued :
         m.token = inv[i].token => inv[i].signals = <<Success(m.user)>>

\* C4, amended: with verifyUserAfterToken false and the replay check on, the
\* first acceptance of a token minted by a passed requestToken, presented
\* before it expires, succeeds with the JSON round trip of the user that was
\* handed to sendToken (the same user when it holds JSON values only) and
\* records the token; a later acceptance of it fails with "Token was already
\* used".
C4_RoundTrip ==
  /\ LedgerIsHistory
  /\ \A i \in Procs :
       RoundTrip(inv[i])
       => LET tk == inv[i].token
              key == tk.user[PrimaryKeyOf(inv[i])]
          IN /\ [token |-> tk, key |-> key] \in accepted
             /\ FirstAcceptance(inv[i]) =>
                  \A m \in issued :
                    m.token = tk =>
                      /\ inv[i].signals = <<Success(JsonRoundTrip(m.user))>>
                      /\ m.user \in Users =>
                           inv[i].signals = <<Success(m.user)>>
             /\ ~FirstAcceptance(inv[i]) =>
                  inv[i].signals = <<AlreadyUsedFail(inv[i])>>

\* the second acceptance, with the default options, of a token minted for
\* a user that held a Date
C4_Witness ==
  \E i \in Procs :
    /\ RoundTrip(inv[i]) /\ ~FirstAcceptance(inv[i])
    /\ inv[i].opts = [NoOptions EXCEPT !.action = "acceptToken"]
    /\ \E m \in issued : m.token = inv[i].token /\ m.user \in DatedUsers
    /\ [token |-> inv[i].token, key |-> inv[i].token.user.email] \in accepted
    /\ inv[i].signals = <<Fail("Token was already used", 400)>>


\* field f is absent from an object of the request
Absent(obj, f) == obj = NoObject \/ obj[f] \in {Undefined, Null}

\* a configured user field is absent from the body (when allowPost) and
\* from the query
MissingField(request) ==
  \E f \in {"email", "id"} :
    /\ ~config.allowPost \/ Absent(request.body, f)
    /\ Absent(request.query, f)

\* C5: a requestToken whose request lacks one of the configured user
\* fields, whichever it is, ends at once in fail "Mandatory user fields
\* missing" (401) and calls nothing: no verifyUser, no signing, no sendToken.
C5_MissingFieldFails ==
  \A i \in Procs :
    (IsRequestToken(inv[i]) /\ MissingField(inv[i].req))
    => /\ Over(inv[i])
       /\ inv[i].signals = <<Fail("Mandatory user fields missing", 401)>>
       /\ inv[i].trace = <<>>

\* the first field is there and the second is missing
C5_Witness ==
  \E i \in Procs :
    /\ Over(inv[i]) /\ IsRequestToken(inv[i])
    /\ config.allowPost
    /\ ~Absent(inv[i].req.body, "email")
    /\ Absent(inv[i].req.body, "id") /\ Absent(inv[i].req.query, "id")
    /\ inv[i].signals = <<Fail("Mandatory user fields missing", 401)>>

\* C6: requestToken never signals success; it never enters the replay
\* check; when it is over it has signalled exactly one of pass, fail and
\* error; and it signals pass only after sendToken has resolved.
C6_RequestNeverSucceeds ==
  \A i \in Procs :
    IsRequestToken(inv[i])
    => /\ \A k \in 1..Len(inv[i].signals) :
            /\ inv[i].signals[k].kind \in {"pass", "fail", "error"}
            /\ inv[i].signals[k].kind = "pass" =>
                 Did(inv[i], "sendToken", "then")
       /\ inv[i].pc \in {"verifyUser", "sendToken", "done"}
       /\ Over(inv[i]) <=> Len(inv[i].signals) = 1
       /\ NoStorageUse(inv[i])

C6_Witness ==
  \E i \in Procs :
    /\ Over(inv[i]) /\ IsRequestToken(inv[i])
    /\ inv[i].signals = <<Pass>>
    /\ Did(inv[i], "sendToken", "then")

Rejected(r, fn) == Did(r, fn, "catch")

\* C7: when storage.get or storage.set rejects during the replay check,
\* the invocation signals the internal error, and neither success nor fail.
C7_StorageFailureIsError ==
  \A i \in Procs :
    (Rejected(inv[i], "storage.get") \/ Rejected(inv[i], "storage.set"))
    => /\ Len(inv[i].signals) = 1
       /\ inv[i].signals[1].kind = "error"

\* C8: when verifyUser rejects, in either phase, the invocation ends in
\* error "Authentication failed" and nothing else: no token is signed,
\* sendToken is not called and the storage is not used.
C8_VerifyUserRejection ==
  \A i \in Procs :
    Rejected(inv[i], "verifyUser")
    => /\ Over(inv[i])
       /\ inv[i].signals = <<Error("Authentication failed")>>
       /\ ~Did(inv[i], "jwt.sign", "call")
       /\ ~Did(inv[i], "sendToken", "call")
       /\ NoStorageUse(inv[i])

C8_Witness ==
  \E i \in Procs :
    /\ Over(inv[i]) /\ IsRequestToken(inv[i])
    /\ Rejected(inv[i], "verifyUser")
    /\ inv[i].signals = <<Error("Authentication failed")>>

\* C9: when sendToken rejects, requestToken ends in error "Authentication
\* failed", never in pass, and sendToken has been called once.
C9_SendTokenRejection ==
  \A i \in Procs :
    Rejected(inv[i], "sendToken")
    => /\ Over(inv[i])
       /\ inv[i].signals = <<Error("Authentication failed")>>
       /\ Cardinality(CallsOf(inv[i], "sendToken")) = 1

C9_Witness ==
  \E i \in Procs :
    /\ Over(inv[i]) /\ IsRequestToken(inv[i])
    /\ Rejected(inv[i], "sendToken")
    /\ inv[i].signals = <<Error("Authentication failed")>>

\* the message of the fail signalled when no user is found
NoUserFail(r) ==
  Fail(IF r.opts.authMessage = Undefined THEN "No user found"
       ELSE r.opts.authMessage, 400)

\* C10: when verifyUser resolves to no user, the phase ends in fail (400)
\* with options.authMessage if given and "No user found" otherwise; no token
\* is signed, sendToken is not called, the storage is not used and success
\* is not signalled.
C10_NoUserFound ==
  \A i \in Procs :
    Resolved(inv[i], NullUser)
    => /\ Over(inv[i])
       /\ inv[i].signals = <<NoUserFail(inv[i])>>
       /\ ~Did(inv[i], "jwt.sign", "call")
       /\ ~Did(inv[i], "sendToken", "call")
       /\ NoStorageUse(inv[i])

C10_Witness ==
  \E i \in Procs :
    /\ Over(inv[i]) /\ Resolved(inv[i], NullUser)
    /\ inv[i].opts.authMessage = "who are you"
    /\ inv[i].signals = <<Fail("who are you", 400)>>

\* the arguments of the k-th call in the trace
ArgsOfCall(r, k) == r.trace[k].args

AllFields(r) == ~MissingField(r.req)

\* C11: with verifyUserAfterToken false, a requestToken that has all fields
\* calls verifyUser exactly once and an acceptToken never calls it; with
\* verifyUserAfterToken true, a requestToken never calls verifyUser and an
\* acceptToken whose token verified calls it exactly once, with the decoded
\* subject, and a success carries the user verifyUser resolved to.
C11_VerificationOrdering ==
  \A i \in Procs :
    LET r == inv[i]
        n == Cardinality(CallsOf(r, "verifyUser"))
    IN /\ (IsRequestToken(r) /\ ~config.verifyUserAfterToken /\ AllFields(r))
            => n = 1
       /\ (IsAcceptToken(r) /\ ~config.verifyUserAfterToken) => n = 0
       /\ (IsRequestToken(r) /\ config.verifyUserAfterToken) => n = 0
       /\ ( /\ Presented(r) /\ config.verifyUserAfterToken
            /\ Verifies(r.token, VerifiedAt(r)) )
          => /\ n = 1
             /\ \A k \in CallsOf(r, "verifyUser") :
                  ArgsOfCall(r, k) = callbackArgs(config, r.req, <<r.token.user>>)
             /\ \A k \in 1..Len(r.signals) :
                  r.signals[k].kind = "success" =>
                    /\ r.signals[k].user # NullUser
                    /\ Resolved(r, r.signals[k].user)

\* a deferred verification that resolved to a user other than the decoded
\* subject, accepted with that user
C11_Witness ==
  \E i \in Procs :
    /\ Over(inv[i]) /\ Presented(inv[i]) /\ config.verifyUserAfterToken
    /\ inv[i].token \in Minted
    /\ Len(inv[i].signals) = 1 /\ inv[i].signals[1].kind = "success"
    /\ inv[i].signals[1].user # inv[i].token.user
    /\ Resolved(inv[i], inv[i].signals[1].user)

\* the invocation went through the replay check and ended in success
AcceptedWithCheck(r) ==
  /\ Over(r) /\ IsAcceptToken(r) /\ ReplayChecked(r)
  /\ Len(r.signals) = 1 /\ r.signals[1].kind = "success"

\* the subject the replay check keys the ledger by
SubjectOf(r) == r.user

\* C12: the replay check reads and writes the storage under
\* subject[userPrimaryKey], 'email' when userPrimaryKey is not given: after
\* an acceptance with the replay check, storage.get and storage.set were
\* called with that key and the record under it holds the token; and no
\* step of an acceptToken creates or changes a record under another key
\* (with userPrimaryKey 'id', none under subject.email).
C12_LedgerKey ==
  /\ [] \A i \in Procs :
          AcceptedWithCheck(inv[i]) =>
            LET r == inv[i]
                key == SubjectOf(r)[PrimaryKeyOf(r)]
            IN /\ \A k \in CallsOf(r, "storage.get") : ArgsOfCall(r, k) = <<key>>
               /\ \A k \in CallsOf(r, "storage.set") : ArgsOfCall(r, k)[1] = key
               /\ Cardinality(CallsOf(r, "storage.set")) = 1
               /\ key \in DOMAIN tokens /\ r.token \in DOMAIN tokens[key]
  /\ [][ \A i \in Procs :
           (inv[i].pc = "storageGet" /\ inv'[i] # inv[i]) =>
             LET key == SubjectOf(inv[i])[PrimaryKeyOf(inv[i])]
             IN \A k \in DOMAIN tokens' :
                  k # key => k \in DOMAIN tokens /\ tokens'[k] = tokens[k] ]_vars

\* accepted with userPrimaryKey 'id': the token is under subject.id and
\* there is no record under subject.email
C12_Witness ==
  \E i \in Procs :
    /\ AcceptedWithCheck(inv[i])
    /\ inv[i].opts.userPrimaryKey = "id"
    /\ inv[i].user.id \in DOMAIN tokens
    /\ inv[i].token \in DOMAIN tokens[inv[i].user.id]
    /\ inv[i].user.email \notin DOMAIN tokens

\* the ledger the invocation read at storage.get
ReadLedger(r) == DOMAIN storedRecord(r)

\* C13: with MemoryStorage and several acceptToken invocations in flight,
\* the replay check decides on the ledger it read at storage.get, whatever
\* has been written since: an invocation that read a ledger without its
\* token goes on to storage.set and success, one that read a ledger with it
\* fails.  Two invocations of one token and one user key that both read
\* before either wrote therefore both succeed.
C13_RaceOnLedger ==
  \A i \in Procs :
    LET r == inv[i]
    IN (IsAcceptToken(r) /\ Did(r, "storage.get", "then"))
       => /\ r.token \notin ReadLedger(r)
               => \/ r.pc = "storageSet"
                  \/ Over(r) /\ r.signals = <<Success(r.user)>>
          /\ r.token \in ReadLedger(r)
               => Over(r) /\ r.signals = <<AlreadyUsedFail(r)>>

\* two invocations in flight together, of the same token for the same user
\* key with the replay check on, both read the ledger without the token and
\* both have signalled success
C13_Witness ==
  \E i, j \in Procs :
    /\ i # j
    /\ AcceptedWithCheck(inv[i]) /\ AcceptedWithCheck(inv[j])
    /\ inv[i].token = inv[j].token /\ inv[i].uid = inv[j].uid
    /\ inv[i].token \notin ReadLedger(inv[i])
    /\ inv[j].token \notin ReadLedger(inv[j])

\* the step of a requestToken that mints its token
Minting(r, r2) == r.pc \in {"idle", "verifyUser"} /\ r2.pc = "sendToken"

\* the second a minted token stops being accepted at
ExpirySecond(tk) == tk.iat + config.ttlSeconds

\* C14: a token is minted with the second of its minting as iat, and a
\* minted token is accepted only when it is verified before second
\* iat + ttl: verified then or later it ends in fail "Invalid token" (401),
\* verified earlier it is not refused as invalid.  With t the minting
\* instant, iat <= t, so every acceptance is strictly before t + ttl seconds
\* and every presentation from t + ttl seconds on fails.
C14_TokenLifetime ==
  /\ [] \A i \in Procs :
          LET r == inv[i]
          IN (Presented(r) /\ r.token \in Minted) =>
               /\ VerifiedAt(r) >= ExpirySecond(r.token)
                    => Over(r) /\ r.signals = <<Fail("Invalid token", 401)>>
               /\ VerifiedAt(r) < ExpirySecond(r.token)
                    => \A k \in 1..Len(r.signals) :
                         r.signals[k] # Fail("Invalid token", 401)
               /\ \A k \in 1..Len(r.signals) :
                    r.signals[k].kind = "success"
                      => VerifiedAt(r) * 1000 < r.token.iat * 1000
                                                  + config.ttlSeconds * 1000
  /\ [][ \A i \in Procs :
           Minting(inv[i], inv'[i]) =>
             /\ inv'[i].token.iat = now \div 1000
             /\ inv'[i].token.iat * 1000 <= now
             /\ now < inv'[i].token.iat * 1000 + 1000 ]_vars

\* a minted token presented at the very second it expires
C14_Witness ==
  \E i \in Procs :
    /\ Over(inv[i]) /\ Presented(inv[i])
    /\ inv[i].token \in Minted
    /\ VerifiedAt(inv[i]) = ExpirySecond(inv[i].token)
    /\ inv[i].signals = <<Fail("Invalid token", 401)>>
    /\ [token |-> inv[i].token, key |-> inv[i].token.user.email] \in accepted

\* the invocation as authenticate found it: the request and the options
Entered(r) == [Idle EXCEPT !.req = r.req, !.opts = r.opts]

\* the options of the invocation with action given as a
WithAction(r, a) == [r.opts EXCEPT !.action = a]

KnownActions == {"requestToken", "acceptToken"}

\* C15: authenticate dispatches on options.action.  An invocation whose
\* action is neither requestToken nor acceptToken is over at once with error
\* "Unknown action", has called nothing and leaves the storage alone; an
\* acceptToken invocation is what acceptToken makes of the request, and is
\* the same whether the action was given or absent; a requestToken
\* invocation is what requestToken makes of the request.
C15_Dispatch ==
  /\ [] \A i \in Procs :
          (inv[i].pc # "idle" /\ inv[i].opts.action \notin KnownActions)
          => /\ Over(inv[i])
             /\ inv[i].signals = <<Error("Unknown action")>>
             /\ inv[i].trace = <<>>
  /\ [][ \A i \in Procs :
           (inv[i].pc = "idle" /\ inv'[i].pc # "idle") =>
             LET r == inv'[i]
             IN /\ r.opts.action = "acceptToken" =>
                     /\ r = acceptToken(config, now, Entered(r))
                     /\ r = authenticate(config, now, r.req,
                                          WithAction(r, Undefined))
                     /\ r = authenticate(config, now, r.req,
                                          WithAction(r, "acceptToken"))
                /\ r.opts.action = "requestToken" =>
                     r = requestToken(config, now, Entered(r))
                /\ r.opts.action \notin KnownActions => tokens' = tokens ]_vars

C15_Witness ==
  \E i \in Procs :
    /\ Over(inv[i])
    /\ inv[i].opts.action = "resetPassword"
    /\ inv[i].signals = <<Error("Unknown action")>>
    /\ inv[i].trace = <<>>

\* the sources acceptToken consults for the token, in priority order
ConsultedSources(request) ==
  (IF config.allowPost THEN <<request.body>> ELSE <<>>)
    \o <<request.query, request.params>>

TokenIn(obj) == lookup(obj, tokenField)

\* the sources that hold a value: a token string that is not empty
Holding(request) ==
  { k \in 1..Len(ConsultedSources(request)) :
      ~FalsyTok(TokenIn(ConsultedSources(request)[k])) }

FirstOf(request, ks) ==
  TokenIn(ConsultedSources(request)[CHOOSE k \in ks : \A m \in ks : k <= m])

TokenMissing(r) == r.signals = <<Fail("Token missing", 401)>>

\* C16: acceptToken takes the token from the first of body (only when
\* allowPost), query and path parameters that holds a value, and fails with
\* "Token missing" (401) exactly when none of them holds one.
C16_FirstSourceHolding ==
  \A i \in Procs :
    IsAcceptToken(inv[i]) =>
      /\ TokenMissing(inv[i]) <=> Holding(inv[i].req) = {}
      /\ Holding(inv[i].req) # {} =>
           inv[i].token = FirstOf(inv[i].req, Holding(inv[i].req))

\* the record stored under key k, empty when there is none
RecordUnder(map, k) == IF k \in DOMAIN map THEN map[k] ELSE EmptyRecord

\* the step of the replay check that persists the updated ledger
Persisting(r, r2) == r.pc = "storageGet" /\ r2.pc = "storageSet"

\* C17: the record an acceptance with the replay check persists under the
\* user key holds the presented token with its verified expiration in
\* milliseconds (exp * 1000), every entry stored before whose expiration is
\* later than the current time, unchanged, and no entry stored before whose
\* expiration is at or before the current time; once the invocation has
\* succeeded the token is still there with that expiration.
C17_PersistedRecord ==
  /\ [][ \A i \in Procs :
           Persisting(inv[i], inv'[i]) =>
             LET r == inv[i]
                 before == RecordUnder(tokens, r.uid)
                 after == RecordUnder(tokens', r.uid)
                 live == { tk \in DOMAIN before : before[tk] > now }
             IN /\ DOMAIN after = live \cup {r.token}
                /\ after[r.token] = r.token.exp * 1000
                /\ \A tk \in live \ {r.token} : after[tk] = before[tk]
                /\ \A tk \in DOMAIN before :
                     before[tk] <= now => tk \notin DOMAIN after ]_vars
  /\ [] \A i \in Procs :
          AcceptedWithCheck(inv[i]) =>
            /\ inv[i].token \in DOMAIN RecordUnder(tokens, inv[i].uid)
            /\ RecordUnder(tokens, inv[i].uid)[inv[i].token]
                 = inv[i].token.exp * 1000

\* an acceptance that found an expired entry in the ledger it read and
\* persisted a record without it
C17_Witness ==
  \E i \in Procs :
    /\ AcceptedWithCheck(inv[i])
    /\ \E tk \in ReadLedger(inv[i]) :
         /\ tk \in pruned
         /\ tk \notin DOMAIN RecordUnder(tokens, inv[i].uid)
         /\ storedRecord(inv[i])[tk] = now

\* the failures of an invocation
Failures(r) ==
  { r.signals[k] : k \in { m \in 1..Len(r.signals) :
                             r.signals[m].kind = "fail" } }

Unauthorized ==
  { Fail("Mandatory user fields missing", 401), Fail("Token missing", 401),
    Fail("Invalid token", 401) }

\* C18: every failure signalled is one of "Mandatory user fields missing",
\* "Token missing" and "Invalid token", with status 401, or is the no-user
\* failure or the token-already-used failure (default or custom message),
\* with status 400; the no-user failure follows a verifyUser that resolved
\* to no user, the already-used failure a ledger that held the token; no
\* failure has another status.
C18_FailureStatus ==
  \A i \in Procs :
    \A f \in Failures(inv[i]) :
      LET r == inv[i]
      IN /\ f.status \in {400, 401}
         /\ f.status = 401 <=> f \in Unauthorized
         /\ f.status = 400 =>
              \/ f = NoUserFail(r) /\ Resolved(r, NullUser)
              \/ /\ f = AlreadyUsedFail(r)
                 /\ Did(r, "storage.get", "then")
                 /\ r.token \in ReadLedger(r)
         /\ f.message = "Mandatory user fields missing" => IsRequestToken(r)
         /\ f.message \in {"Token missing", "Invalid token"} => IsAcceptToken(r)

\* a replayed token refused with a custom message
C18_Witness ==
  \E i \in Procs :
    /\ Over(inv[i]) /\ IsAcceptToken(inv[i])
    /\ inv[i].opts.tokenAlreadyUsedMessage = "seen before"
    /\ Failures(inv[i]) = {Fail("seen before", 400)}

\* the arguments of the constructor have none of the defects it refuses,
\* the ttl aside
OtherwiseValid(c) ==
  /\ c.options.secret \notin {Undefined, Null} \cup Blank
  /\ c.options.userFields.t = "array"
  /\ Len(c.options.userFields.items) > 0
  /\ \A k \in 1..Len(c.options.userFields.items) :
       c.options.userFields.items[k] \notin {Undefined, Null} \cup Blank
  /\ c.options.tokenField \notin {Undefined, Null, ""}
  /\ c.sendToken = "function" /\ c.verifyUser = "function"

TtlInRange(ttl) == ttl.t = "number" => (1 <= ttl.n /\ ttl.n <= 86400)

\* C19: with arguments that are otherwise valid, the constructor returns a
\* strategy for every ttl from 1 to 86400 (its ttlSeconds is that ttl) and
\* for no ttl (its ttlSeconds is 600), and throws, leaving no strategy, for
\* 0, for 86401 and for every ttl below 1 or above 86400.
C19_TtlRange ==
  (construction.pc = "done" /\ OtherwiseValid(construction)) =>
    LET ttl == construction.options.ttl
    IN /\ construction.outcome.threw <=> ~TtlInRange(ttl)
       /\ construction.outcome.threw => config = NoStrategy
       /\ ~construction.outcome.threw =>
            config.ttlSeconds = (IF ttl.t = "number" THEN ttl.n ELSE 600)

C19_Witness ==
  /\ construction.pc = "done" /\ OtherwiseValid(construction)
  /\ construction.options.ttl = NumberOf(86400)
  /\ ~construction.outcome.threw
  /\ config.ttlSeconds = 86400

\* C20: the constructor throws, in the one step it takes, and leaves no
\* strategy whenever the secret is missing, empty or blank, userFields is
\* missing, empty or holds an empty or blank name, tokenField is missing or
\* empty, or sendToken or verifyUser is missing; with none of these and a
\* ttl that is absent or within the limits it returns a strategy that holds
\* the secret, the user fields and the token field it was given.
C20_ConstructionValidation ==
  LET c == construction
  IN /\ c.pc = "new" => config = NoStrategy /\ c.outcome = NoOutcome
     /\ c.pc = "done" =>
          /\ ~OtherwiseValid(c) => c.outcome.threw /\ config = NoStrategy
          /\ (OtherwiseValid(c) /\ TtlInRange(c.options.ttl)) =>
               /\ ~c.outcome.threw
               /\ config # NoStrategy
               /\ config.secret = c.options.secret
               /\ config.userFields = c.options.userFields.items
               /\ config.tokenField = c.options.tokenField
          /\ c.outcome.threw <=> config = NoStrategy

\* everything is valid but the secret, which is blank
C20_Witness ==
  /\ construction.pc = "done"
  /\ construction.options.secret = "  "
  /\ OtherwiseValid([construction EXCEPT !.options.secret = "s"])
  /\ TtlInRange(construction.options.ttl)
  /\ construction.outcome = Threw("Secret cannot be empty")
  /\ config = NoStrategy

---------------------------------------------------------------------------
(* Properties of UsedTokens and MemoryStorage taken alone *)

CallsTo(fn) == { k \in 1..Len(calls) : calls[k].fn = fn }

\* the constructor calls given the record that toRecord had just returned
Restorations ==
  { k \in CallsTo("constructor") :
      /\ k > 1
      /\ calls[k - 1].fn = "toRecord"
      /\ calls[k].record = calls[k - 1].record }

\* the entries of a ledger that expire after the instant ms
Unexpired(usedTokens, ms) ==
  { tk \in DOMAIN usedTokens : usedTokens[tk] > ms }

\* ledger b holds exactly the tokens of kept, each with its expiration in a
KeepsExactly(a, b, kept) ==
  /\ DOMAIN b = kept
  /\ \A tk \in kept : b[tk] = a[tk]

\* C21: for every ledger L, the ledger new UsedTokens(L.toRecord()) has the
\* same membership and the same expirations as L, and its toRecord() equals
\* L.toRecord().
C21_LedgerRoundTrip ==
  \A k \in Restorations :
    LET original == calls[k - 1].before
        restored == calls[k].after
    IN /\ \A tk \in LedgerTokens :
            (tk \in DOMAIN restored) <=> (tk \in DOMAIN original)
       /\ \A tk \in DOMAIN original : restored[tk] = original[tk]
       /\ toRecord(restored) = calls[k - 1].record

\* a ledger of two tokens with different expirations was restored from its
\* record
C21_Witness ==
  \E k \in Restorations :
    /\ DOMAIN calls[k - 1].before = LedgerTokens
    /\ calls[k - 1].before["token1"] # calls[k - 1].before["token2"]
    /\ calls[k - 1].before["token1"] >= MsPerSecond

\* C22: removeExpiredTokens removes exactly the entries whose expiration in
\* milliseconds is less than or equal to the current time, an entry that
\* expires at the current time included, and leaves every other entry with
\* its expiration.
C22_PruningBoundary ==
  \A k \in CallsTo("removeExpiredTokens") :
    KeepsExactly(calls[k].before, calls[k].after,
                 Unexpired(calls[k].before, calls[k].at))

\* a pruning, later than instant 0, of a ledger that held an entry expiring
\* at that instant and an entry expiring one millisecond later
C22_Witness ==
  \E k \in CallsTo("removeExpiredTokens") :
    /\ calls[k].at > 0
    /\ \E gone \in DOMAIN calls[k].before :
         /\ calls[k].before[gone] = calls[k].at
         /\ gone \notin DOMAIN calls[k].after
    /\ \E kept \in DOMAIN calls[k].before :
         /\ calls[k].before[kept] = calls[k].at + 1
         /\ kept \in DOMAIN calls[k].after

\* the second of two removeExpiredTokens calls made in a row
Repeated ==
  { k \in CallsTo("removeExpiredTokens") :
      k > 1 /\ calls[k - 1].fn = "removeExpiredTokens" }

\* C23: pruning is idempotent: two removeExpiredTokens calls in a row leave
\* the ledger as one call does: the second call changes nothing when the
\* clock has not moved, and in any case the ledger is the one a single call
\* at the instant of the second call leaves.
C23_PruningIdempotent ==
  \A k \in Repeated :
    /\ calls[k].at = calls[k - 1].at => calls[k].after = calls[k - 1].after
    /\ KeepsExactly(calls[k - 1].before, calls[k].after,
                    Unexpired(calls[k - 1].before, calls[k].at))

\* two prunings in a row at one instant, the first of which removed an entry
\* and kept one
C23_Witness ==
  \E k \in Repeated :
    /\ calls[k].at = calls[k - 1].at
    /\ calls[k - 1].after # calls[k - 1].before
    /\ calls[k - 1].after # EmptyRecord

\* the token was inserted or loaded before call k
InsertedOrLoaded(tk, k) ==
  \E j \in 1..(k - 1) :
    \/ calls[j].fn = "markAsUsed" /\ calls[j].token = tk
    \/ calls[j].fn = "constructor" /\ tk \in DOMAIN calls[j].record

\* C24: markAsUsed(token, s) makes hasBeenUsed(token) true and sets the
\* expiration stored for the token to s * 1000, whatever expiration the token
\* had, and leaves the entry of every other token as it was; hasBeenUsed is
\* false for a token never inserted or loaded.
C24_MarkAsUsed ==
  /\ \A k \in CallsTo("markAsUsed") :
       LET c == calls[k]
       IN /\ c.token \in DOMAIN c.after
          /\ c.after[c.token] = c.expirationSeconds * MsPerSecond
          /\ KeepsExactly(c.before,
                          [tk \in DOMAIN c.after \ {c.token} |-> c.after[tk]],
                          DOMAIN c.before \ {c.token})
  /\ \A k \in CallsTo("hasBeenUsed") :
       /\ (k > 1 /\ calls[k - 1].fn = "markAsUsed"
                 /\ calls[k - 1].token = calls[k].token)
            => calls[k].returned
       /\ ~InsertedOrLoaded(calls[k].token, k) => ~calls[k].returned

\* a markAsUsed that replaced another expiration of its token beside the
\* entry of another token, then a hasBeenUsed that returned true
C24_Witness ==
  \E k \in CallsTo("markAsUsed") :
    /\ DOMAIN calls[k].before = LedgerTokens
    /\ calls[k].before[calls[k].token]
         # calls[k].expirationSeconds * MsPerSecond
    /\ calls[k].expirationSeconds > 0
    /\ k < Len(calls)
    /\ calls[k + 1].fn = "hasBeenUsed"
    /\ calls[k + 1].token = calls[k].token

\* the set and delete calls on the key of call k made before it
WritesBefore(k) ==
  { j \in 1..(k - 1) :
      calls[j].fn \in {"set", "delete"} /\ calls[j].key = calls[k].key }

LatestOf(indices) == CHOOSE j \in indices : \A i \in indices : i <= j

\* at call k its key holds a value: the latest write on the key is a set
Holds(k) ==
  /\ WritesBefore(k) # {}
  /\ calls[LatestOf(WritesBefore(k))].fn = "set"

\* C25: MemoryStorage behaves as a map: get(k) resolves to the value of the
\* latest set(k, v) not followed by delete(k) and to undefined otherwise;
\* delete(k) resolves to whether k was present; neither throws for a missing
\* key; set and delete on one key never change what get returns for another.
C25_MemoryStorageIsMap ==
  \A k \in 1..Len(calls) :
    /\ calls[k].fn = "get" =>
         calls[k].resolved =
           IF Holds(k)
             THEN Found(calls[LatestOf(WritesBefore(k))].value)
             ELSE NoRecord
    /\ calls[k].fn = "delete" => calls[k].existed = Holds(k)

\* a key was set, another key was deleted, and get found the value of the
\* first key
C25_Witness ==
  /\ Len(calls) = 3
  /\ calls[1].fn = "set"
  /\ calls[2].fn = "delete" /\ calls[2].key # calls[1].key
  /\ calls[3].fn = "get" /\ calls[3].key = calls[1].key
  /\ calls[3].resolved = Found(calls[1].value)

---------------------------------------------------------------------------
(* Properties of the callbacks and of the course of one invocation *)

\* what verifyUser is asked about: the extracted fields when a token is
\* requested, the subject of the token when one is accepted
AskedAbout(r) ==
  IF r.opts.action = "requestToken"
    THEN [f \in FieldNames |-> extractSingleField(config, r.req, f)]
    ELSE r.token.user

\* the arguments after the request, if the request is passed at all
OwnArguments(r, k) ==
  IF config.passReqToCallbacks
    THEN SubSeq(r.trace[k].args, 2, Len(r.trace[k].args))
    ELSE r.trace[k].args

RequestFirst(r, k) ==
  config.passReqToCallbacks => r.trace[k].args[1] = r.req

\* C26: with passReqToCallbacks the request is the first argument of
\* verifyUser(req, fields) and of sendToken(req, user, token); without it
\* the callbacks receive verifyUser(fields) and sendToken(user, token); in
\* both cases the token given to sendToken is the one just signed and the
\* user given is the user of the payload that was signed.
C26_CallbackArguments ==
  \A i \in Procs :
    LET r == inv[i]
    IN /\ \A k \in CallsOf(r, "verifyUser") :
            /\ RequestFirst(r, k)
            /\ OwnArguments(r, k) = <<AskedAbout(r)>>
       /\ \A k \in CallsOf(r, "sendToken") :
            /\ RequestFirst(r, k)
            /\ Len(OwnArguments(r, k)) = 2
            /\ r.trace[k - 1].fn = "jwt.sign"
            /\ OwnArguments(r, k)[1] = r.trace[k - 1].args[1]
            /\ OwnArguments(r, k)[2] = r.token
            /\ r.token.t = "jwt"
            /\ r.token.user = JsonRoundTrip(r.trace[k - 1].args[1])
            /\ r.token.iat = r.trace[k - 1].args[2]

\* with passReqToCallbacks, a request for a token has called verifyUser and
\* then sendToken and has passed
C26_Witness ==
  /\ config.passReqToCallbacks
  /\ \E i \in Procs :
       /\ IsRequestToken(inv[i])
       /\ CallsOf(inv[i], "verifyUser") # {}
       /\ CallsOf(inv[i], "sendToken") # {}
       /\ inv[i].signals = <<Pass>>

\* the invocation is suspended at an await
InFlight(r) ==
  r.pc \in {"verifyUser", "sendToken", "checkReuse", "storageGet",
            "storageSet"}

\* the promise authenticate returned has settled
Ended(r) == r.pc \in {"done", "rejected"}

\* C27: every authenticate invocation eventually signals a terminal outcome
\* (success, fail, pass or error), provided each callback and storage
\* operation it awaits eventually resolves or rejects: an invocation in
\* flight ends, and one that has ended has signalled.
C27_EventuallySignals ==
  \A i \in Procs :
    /\ InFlight(inv[i]) ~> Ended(inv[i])
    /\ [](Ended(inv[i]) => Len(inv[i].signals) >= 1)

Awaited(fn) == << <<fn, "call">>, <<fn, "then">> >>

\* the calls of an invocation in which nothing fails, in the order of the
\* code, each awaited call followed by its settling
CourseOf(r) ==
  IF r.opts.action = "requestToken"
    THEN (IF config.verifyUserAfterToken THEN <<>> ELSE Awaited("verifyUser"))
         \o << <<"jwt.sign", "call">> >> \o Awaited("sendToken")
    ELSE << <<"jwt.verify", "call">> >>
         \o (IF config.verifyUserAfterToken THEN Awaited("verifyUser")
             ELSE <<>>)
         \o (IF ReplayChecked(r)
               THEN Awaited("storage.get") \o Awaited("storage.set")
               ELSE <<>>)

\* the trace is the beginning of the course; only its last call may have
\* been rejected
FollowsCourse(r) ==
  /\ Len(r.trace) <= Len(CourseOf(r))
  /\ \A k \in 1..Len(r.trace) :
       /\ r.trace[k].fn = CourseOf(r)[k][1]
       /\ \/ r.trace[k].settle = CourseOf(r)[k][2]
          \/ /\ r.trace[k].settle = "catch"
             /\ CourseOf(r)[k][2] = "then"
             /\ k = Len(r.trace)

\* the invocation went through its whole course and nothing was rejected
Completed(r) ==
  /\ Len(r.trace) = Len(CourseOf(r))
  /\ \A k \in 1..Len(r.trace) : r.trace[k].settle # "catch"

\* the call the invocation is suspended at
SuspendedAt(r) ==
  CASE r.pc = "verifyUser" -> "verifyUser"
    [] r.pc = "sendToken" -> "sendToken"
    [] r.pc = "storageGet" -> "storage.get"
    [] r.pc = "storageSet" -> "storage.set"
    [] OTHER -> "none"

\* C28: within one invocation the suspension points are strictly ordered
\* and never overlap: in requestToken verifyUser (if not deferred), then
\* signing, then sendToken, then pass; in acceptToken token verification,
\* then verifyUser (if deferred), then storage.get, then storage.set, then
\* success; each call is made after the one before has settled, and success
\* with the replay check on is signalled only after storage.set has
\* completed.
C28_SuspensionOrder ==
  \A i \in Procs :
    LET r == inv[i]
    IN /\ FollowsCourse(r)
       /\ SuspendedAt(r) # "none" =>
            /\ r.trace[Len(r.trace)].fn = SuspendedAt(r)
            /\ r.trace[Len(r.trace)].settle = "call"
            /\ r.signals = <<>>
       /\ (r.signals # <<>> /\ r.signals[1].kind \in {"pass", "success"})
            => Completed(r)

\* an acceptance with verifyUser deferred and the replay check on has
\* succeeded after its three awaits
C28_Witness ==
  \E i \in Procs :
    /\ IsAcceptToken(inv[i])
    /\ config.verifyUserAfterToken
    /\ ReplayChecked(inv[i])
    /\ Len(inv[i].trace) = 7
    /\ inv[i].signals = <<Success(inv[i].user)>>

\* C29: at most one terminal outcome (success, fail, pass, error) is
\* signalled per authenticate invocation, on every path through either
\* phase, the paths where a callback rejects included.
C29_SingleOutcome ==
  \A i \in Procs :
    /\ Len(inv[i].signals) <= 1
    /\ \A k \in 1..Len(inv[i].signals) :
         inv[i].signals[k].kind \in {"success", "fail", "pass", "error"}
    /\ Over(inv[i]) => Len(inv[i].signals) = 1

\* sendToken has rejected and the invocation has signalled once
C29_Witness ==
  \E i \in Procs :
    /\ Rejected(inv[i], "sendToken")
    /\ Len(inv[i].signals) = 1

---------------------------------------------------------------------------
(* Properties of the stored ledgers when invocations interleave *)

\* the token has not expired
StillValid(tk) == tk.exp * MsPerSecond > now

\* C30 (as stated): under any interleaving, at every reachable state, each
\* token whose acceptToken succeeded with the replay check on and that has
\* not expired is in the stored ledger of its user key.
C30_LedgerComplete ==
  \A a \in accepted :
    StillValid(a.token) =>
      /\ a.key \in DOMAIN tokens
      /\ a.token \in DOMAIN tokens[a.key]

\* the step in which invocation i calls storage.set
Writes(i) == inv[i].pc = "storageGet" /\ inv'[i].pc = "storageSet"

\* C30 (amended): the storage.set of an acceptance with the replay check on
\* writes a ledger that holds its token, and an unexpired token leaves the
\* stored ledger of its key only when an acceptance for the same key that
\* had read the ledger without that token writes its own ledger over it; so
\* of two concurrent acceptances of different tokens for one user key only
\* the one that writes last is sure to leave its token.
C30_LedgerLosesOnlyToStaleWrite ==
  [][ /\ \A i \in Procs :
           Writes(i) =>
             /\ inv[i].uid \in DOMAIN tokens'
             /\ inv[i].token \in DOMAIN tokens'[inv[i].uid]
      /\ \A k \in DOMAIN tokens :
           /\ k \in DOMAIN tokens'
           /\ \A tk \in DOMAIN tokens[k] :
                tk \notin DOMAIN tokens'[k] =>
                  \/ tokens[k][tk] <= now
                  \/ \E i \in Procs :
                       /\ Writes(i)
                       /\ inv[i].uid = k
                       /\ tk \notin ReadLedger(inv[i]) ]_vars

\* two acceptances of different tokens for one user key have both succeeded
\* and the stored ledger of the key holds only one of the two tokens
C30_Witness ==
  \E i, j \in Procs :
    /\ AcceptedWithCheck(inv[i]) /\ AcceptedWithCheck(inv[j])
    /\ inv[i].token # inv[j].token
    /\ inv[i].uid = inv[j].uid
    /\ StillValid(inv[i].token)
    /\ inv[i].token \notin DOMAIN tokens[inv[i].uid]
    /\ inv[j].token \in DOMAIN tokens[inv[j].uid]

---------------------------------------------------------------------------
(* Properties of pruning and of what an invocation leaves in the storage *)

\* the step in which invocation i signals success
Succeeds(i) ==
  /\ inv[i].signals = <<>>
  /\ Len(inv'[i].signals) = 1
  /\ inv'[i].signals[1].kind = "success"

\* the step in which invocation i has its token verified
VerifiesToken(i) ==
  /\ inv[i].pc = "idle"
  /\ IsAcceptToken(inv'[i])
  /\ Did(inv'[i], "jwt.verify", "call")

\* an acceptance of the token with the replay check on has succeeded
AcceptedBefore(tk) == \E a \in accepted : a.token = tk

\* C31: pruning never re-enables replay: with a non-decreasing clock, a
\* token whose ledger entry removeExpiredTokens has removed is refused by
\* token verification ("Invalid token") in every later acceptToken, and once
\* accepted and pruned it is never accepted again.
C31_PrunedNeverAccepted ==
  [][ \A i \in Procs :
        /\ (VerifiesToken(i) /\ inv'[i].token \in pruned) =>
             inv'[i].signals = <<Fail("Invalid token", Status401)>>
        /\ (Succeeds(i) /\ IsAcceptToken(inv[i]) /\ ReplayChecked(inv[i])) =>
             ~(inv[i].token \in pruned /\ AcceptedBefore(inv[i].token)) ]_vars

\* invocation i takes a step, and the invocation that takes it
StepOf(i) == inv'[i] # inv[i]
Acting(i) == IF inv[i].pc = "idle" THEN inv'[i] ELSE inv[i]

\* C32: when allowReuse is true the replay check is skipped entirely:
\* acceptToken neither reads nor writes the storage, so the token is not
\* recorded as used and the stored ledger of every user key is left as it
\* was by every step of the invocation.
C32_ReuseSkipsStorage ==
  [][ \A i \in Procs :
        ( /\ StepOf(i)
          /\ IsAcceptToken(Acting(i))
          /\ Acting(i).opts.allowReuse = "true" )
        => /\ tokens' = tokens
           /\ accepted' = accepted
           /\ NoStorageUse(inv'[i]) ]_vars

\* an acceptance with allowReuse true has succeeded and its token is in no
\* stored ledger
C32_Witness ==
  \E i \in Procs :
    /\ Over(inv[i]) /\ IsAcceptToken(inv[i])
    /\ inv[i].opts.allowReuse = "true"
    /\ inv[i].signals = <<Success(inv[i].user)>>
    /\ \A k \in DOMAIN tokens : inv[i].token \notin DOMAIN tokens[k]

\* C33: the storage is left unchanged by every acceptToken that does not
\* succeed: on "Token missing", "Invalid token", "No user found", a
\* rejection of verifyUser and "Token was already used" no storage.set is
\* performed, and a refused replay neither prunes nor rewrites the stored
\* ledger.
C33_FailureLeavesStorage ==
  /\ [] \A i \in Procs :
          ( /\ IsAcceptToken(inv[i]) /\ Over(inv[i])
            /\ inv[i].signals[1].kind # "success" )
          => ~Did(inv[i], "storage.set", "call")
  /\ [][ \A i \in Procs :
           (StepOf(i) /\ IsAcceptToken(Acting(i)) /\ ~Writes(i))
           => tokens' = tokens ]_vars

\* a replay has been refused and the stored ledger of its key still holds
\* an entry that has expired
C33_Witness ==
  \E i \in Procs :
    /\ IsAcceptToken(inv[i]) /\ Over(inv[i])
    /\ inv[i].signals = <<AlreadyUsedFail(inv[i])>>
    /\ \E tk \in DOMAIN tokens[inv[i].uid] : tokens[inv[i].uid][tk] <= now

\* C34: requestToken never reads or writes the storage: no step of a
\* requestToken changes a stored record or calls storage.get or
\* storage.set, and a token that was issued is in a stored ledger only once
\* an acceptToken has recorded it.
C34_RequestLeavesStorage ==
  /\ [][ \A i \in Procs :
           (StepOf(i) /\ IsRequestToken(Acting(i)))
           => /\ tokens' = tokens /\ accepted' = accepted
              /\ NoStorageUse(inv'[i]) ]_vars
  /\ [] \A s \in issued :
          (\E k \in DOMAIN tokens : s.token \in DOMAIN tokens[k])
          => \/ \E a \in accepted : a.token = s.token
             \/ \E i \in Procs : /\ IsAcceptToken(inv[i])
                                  /\ inv[i].token = s.token
                                  /\ Did(inv[i], "storage.set", "call")

\* a requestToken has delivered its token and passed, and the token is in
\* no stored ledger
C34_Witness ==
  \E i \in Procs :
    /\ IsRequestToken(inv[i]) /\ Over(inv[i])
    /\ inv[i].signals = <<Pass>>
    /\ Sent(inv[i]) \in issued
    /\ \A k \in DOMAIN tokens : inv[i].token \notin DOMAIN tokens[k]

\* the user key an acceptToken resolves to
KeyOf(r) == SubjectOf(r)[PrimaryKeyOf(r)]

\* the step leaves the records under every other key as they were
OtherRecordsKept(key) ==
  /\ DOMAIN tokens' \ {key} = DOMAIN tokens \ {key}
  /\ \A k \in DOMAIN tokens \ {key} : tokens'[k] = tokens[k]

\* C35: ledgers are isolated per user key: an acceptToken that resolves to
\* key K calls storage.get and storage.set with K only, decides on the
\* record under K, and its steps leave the record under every other key
\* unchanged; it fails as already used only if the record under K holds
\* the token, whatever the records under other keys hold.
C35_KeyIsolation ==
  /\ [] \A i \in Procs :
          (IsAcceptToken(inv[i]) /\ Did(inv[i], "storage.get", "call")) =>
            LET r == inv[i]
                key == KeyOf(r)
            IN /\ \A k \in CallsOf(r, "storage.get") \cup
                           CallsOf(r, "storage.set") :
                    ArgsOfCall(r, k)[1] = key
               /\ r.pc = "storageGet" =>
                    storedRecord(r) = RecordUnder(tokens, key)
               /\ (Over(r) /\ r.signals = <<AlreadyUsedFail(r)>>) =>
                    r.token \in DOMAIN RecordUnder(tokens, key)
  /\ [][ \A i \in Procs :
           (StepOf(i) /\ IsAcceptToken(Acting(i))) =>
             IF Writes(i) THEN OtherRecordsKept(KeyOf(inv[i]))
                          ELSE tokens' = tokens ]_vars

\* a token recorded under one key has been accepted by an acceptToken that
\* resolves to another key
C35_Witness ==
  \E i \in Procs :
    /\ AcceptedWithCheck(inv[i])
    /\ \E k \in DOMAIN tokens \ {KeyOf(inv[i])} :
         inv[i].token \in DOMAIN tokens[k]

\* the arguments of the call the invocation made last
LastArgs(r) == r.trace[Len(r.trace)].args

\* the map after Map.set(key, value)
MapWith(map, key, value) ==
  [k \in DOMAIN map \cup {key} |-> IF k = key THEN value ELSE map[k]]

\* C36: a stored record changes only through storage.set: every change of
\* the storage is the storage.set call of an acceptToken and stores the
\* record handed to it; the ledger the replay check works on is a copy of
\* what storage.get returned, which no later write changes and from which
\* the record handed to storage.set is computed; a replay check that ends
\* without reaching storage.set leaves the storage as it was.
C36_OnlySetWrites ==
  /\ [][ tokens' # tokens =>
           \E i \in Procs :
             /\ Writes(i)
             /\ tokens' = MapWith(tokens, LastArgs(inv'[i])[1],
                                  LastArgs(inv'[i])[2]) ]_vars
  /\ [][ \A i \in Procs :
           /\ (inv[i].pc = "storageGet" /\ inv'[i].pc # "idle") =>
                inv'[i].stored = inv[i].stored
           /\ Writes(i) =>
                LastArgs(inv'[i])[2] =
                  toRecord(markAsUsed(
                    removeExpiredTokens(UsedTokensOf(storedRecord(inv[i])),
                                        now),
                    inv[i].token, inv[i].exp))
           /\ (inv[i].pc = "storageGet" /\ Over(inv'[i])) =>
                tokens' = tokens ]_vars

\* an invocation is suspended at storage.get with the ledger it was given
\* while the record under its key has since been replaced
C36_Witness ==
  \E i \in Procs :
    /\ inv[i].pc = "storageGet"
    /\ inv[i].uid \in DOMAIN tokens
    /\ storedRecord(inv[i]) # tokens[inv[i].uid]

\* the error the callback rejected with
RejectionOf(r, fn) ==
  LET k == CHOOSE k \in 1..Len(r.trace) :
             r.trace[k].fn = fn /\ r.trace[k].settle = "catch"
  IN r.trace[k].value

\* what the caller is given
Outcome(r) == [signals |-> r.signals, over |-> Over(r)]

\* C37: the error a callback rejects with does not reach the caller: when
\* verifyUser or sendToken rejects, the invocation signals error
\* "Authentication failed", and it would have signalled the same had the
\* callback rejected with any other error.
C37_NoErrorLeak ==
  /\ [] \A i \in Procs :
          (Rejected(inv[i], "verifyUser") \/ Rejected(inv[i], "sendToken"))
          => Outcome(inv[i]) =
               [signals |-> <<Error("Authentication failed")>>, over |-> TRUE]
  /\ [][ \A i \in Procs :
           /\ (inv[i].pc = "verifyUser" /\ Rejected(inv'[i], "verifyUser")) =>
                \A error \in Errors :
                  Outcome(verifyUserRejected(inv[i], error)) = Outcome(inv'[i])
           /\ (inv[i].pc = "sendToken" /\ Rejected(inv'[i], "sendToken")) =>
                \A error \in Errors :
                  Outcome(sendTokenRejected(inv[i], error)) = Outcome(inv'[i])
       ]_vars

\* two invocations of the same request whose sendToken rejected with
\* different errors have signalled the same outcome
C37_Witness ==
  \E i, j \in Procs :
    /\ Rejected(inv[i], "sendToken") /\ Rejected(inv[j], "sendToken")
    /\ inv[i].req = inv[j].req /\ inv[i].opts = inv[j].opts
    /\ RejectionOf(inv[i], "sendToken") # RejectionOf(inv[j], "sendToken")
    /\ Outcome(inv[i]) = Outcome(inv[j])

\* the user verifyUser resolved to
VerifiedUser(r) ==
  LET k == CHOOSE k \in 1..Len(r.trace) :
             r.trace[k].fn = "verifyUser" /\ r.trace[k].settle = "then"
  IN r.trace[k].value

\* the subject of the payload a requestToken signs
PayloadSubject(r) ==
  IF config.verifyUserAfterToken THEN extractUserFields(config, r.req)
  ELSE VerifiedUser(r)

\* C38: every token a requestToken mints is signed over the payload
\* { user: subject, iat } and carries it in its JSON form: the subject is
\* the result of verifyUser when verifyUserAfterToken is false and the
\* extracted field map when it is true, iat is the current time in whole
\* seconds, and exp is iat + ttlSeconds.
C38_MintedPayload ==
  /\ [][ \A i \in Procs :
           Minting(inv[i], inv'[i]) =>
             LET r == inv'[i]
                 k == CHOOSE k \in CallsOf(r, "jwt.sign") : TRUE
             IN /\ Cardinality(CallsOf(r, "jwt.sign")) = 1
                /\ ArgsOfCall(r, k) = <<PayloadSubject(r), now \div 1000>>
                /\ config.verifyUserAfterToken <=>
                     ~Did(r, "verifyUser", "call")
                /\ r.token.user = JsonRoundTrip(PayloadSubject(r))
                /\ PayloadSubject(r) \in Users =>
                     r.token.user = PayloadSubject(r)
                /\ r.token.iat = now \div 1000
                /\ r.token.exp = r.token.iat + config.ttlSeconds ]_vars
  /\ [] \A m \in issued :
          /\ m.token.user = JsonRoundTrip(m.user)
          /\ m.token.exp = m.token.iat + config.ttlSeconds

\* with verifyUserAfterToken false and a lifetime of two seconds, a token
\* minted in second 1 for a user other than the one the request named has
\* been delivered
C38_Witness ==
  \E i \in Procs :
    /\ IsRequestToken(inv[i]) /\ Over(inv[i])
    /\ inv[i].signals = <<Pass>>
    /\ ~config.verifyUserAfterToken /\ config.ttlSeconds = 2
    /\ VerifiedUser(inv[i]) # extractUserFields(config, inv[i].req)
    /\ inv[i].token.user = VerifiedUser(inv[i])
    /\ inv[i].token.iat = 1 /\ inv[i].token.exp = 3
    /\ Sent(inv[i]) \in issued

\* the object holds a value for the user field, or a token
Present(obj, f) == ~Absent(obj, f)
PresentTok(obj) == ~NullishTok(TokenIn(obj))

\* the field map a requestToken went on with: the argument of its first
\* call
UsedFields(r) ==
  IF config.verifyUserAfterToken
    THEN ArgsOfCall(r, CHOOSE k \in CallsOf(r, "jwt.sign") : TRUE)[1]
    ELSE OwnArguments(r, CHOOSE k \in CallsOf(r, "verifyUser") : TRUE)[1]

\* the same request without its body
WithoutBody(request) == [request EXCEPT !.body = NoObject]

\* what the first step of the invocation decided
Decided(r) ==
  [pc |-> r.pc, signals |-> r.signals, user |-> r.user, token |-> r.token]

\* C39: with allowPost false the body is never consulted: every invocation
\* starts as it would for the same request without a body, a requestToken
\* with a user field in the body only fails with "Mandatory user fields
\* missing" and an acceptToken with the token in the body only fails with
\* "Token missing".  With allowPost true, a user field present in both body
\* and query is taken from the body, and so is the token.
C39_BodyOnlyWithAllowPost ==
  /\ [] \A i \in Procs :
          LET r == inv[i]
          IN /\ ( /\ IsRequestToken(r) /\ ~config.allowPost
                  /\ \E f \in FieldNames :
                       Present(r.req.body, f) /\ Absent(r.req.query, f) )
                => /\ Over(r)
                   /\ r.signals = <<Fail("Mandatory user fields missing",
                                         Status401)>>
             /\ ( /\ IsAcceptToken(r) /\ ~config.allowPost
                  /\ PresentTok(r.req.body)
                  /\ ~PresentTok(r.req.query) /\ ~PresentTok(r.req.params) )
                => Over(r) /\ TokenMissing(r)
             /\ ( /\ IsRequestToken(r) /\ config.allowPost
                  /\ ~MissingField(r.req) )
                => \A f \in FieldNames :
                     (Present(r.req.body, f) /\ Present(r.req.query, f))
                     => UsedFields(r)[f] = r.req.body[f]
             /\ ( /\ IsAcceptToken(r) /\ config.allowPost
                  /\ PresentTok(r.req.body) /\ PresentTok(r.req.query) )
                => IF TokenIn(r.req.body) = EmptyTok
                     THEN TokenMissing(r)
                     ELSE /\ Did(r, "jwt.verify", "call")
                          /\ r.token = TokenIn(r.req.body)
  /\ [][ \A i \in Procs :
           (inv[i].pc = "idle" /\ inv'[i].pc # "idle" /\ ~config.allowPost)
           => Decided(inv'[i]) =
                Decided(authenticate(config, now, WithoutBody(inv'[i].req),
                                     inv'[i].opts)) ]_vars

\* with allowPost false, a token that was delivered and has not expired is
\* presented in the body only and the invocation has failed with "Token
\* missing"
C39_Witness ==
  \E i \in Procs :
    /\ ~config.allowPost
    /\ IsAcceptToken(inv[i]) /\ Over(inv[i]) /\ TokenMissing(inv[i])
    /\ \E m \in issued :
         /\ TokenIn(inv[i].req.body) = m.token
         /\ now \div 1000 < m.token.exp
    /\ ~PresentTok(inv[i].req.query) /\ ~PresentTok(inv[i].req.params)

===========================================================================
